---- MODULE Spec2Model ----
(***************************************************************************)
(* TaskDesk backend: the authentication and authorization layer.           *)
(*   - the JWKS key cache (fetchJWKS, getPublicKey) behind an RWMutex,      *)
(*   - AuthMiddleware (bearer header, jwt.Parse with the ES256/HS256 key    *)
(*     function, claims, registrations lookup, c.Set),                      *)
(*   - RequireRole / GetUser,                                               *)
(*   - gin's handler chain (c.Next / c.Abort) for the routes of SetupRouter.*)
(* Time is counted in hours; one request is one gin.Context.               *)
(***************************************************************************)
EXTENDS Integers, Sequences, FiniteSets, TLC

\* ------------------------------------------------------------------ bounds
\* The clock runs from 0 to MaxTime hours.
MaxTime == 2

\* A request body holds from 1 to MaxBatch bugs (the binding allows 20).
MaxBatch == 2

\* The project holds StoredBugs bugs at the start and takes MaxNew more.
StoredBugs == 9
MaxNew == 4

\* ------------------------------------------------------- program constants
\* jwksCacheTTL = 1 * time.Hour
jwksCacheTTL == 1

StatusOK == 200
StatusCreated == 201
StatusInternalServerError == 500
StatusUnauthorized == 401
StatusForbidden == 403
StatusBadRequest == 400
StatusNotFound == 404

\* The zero time.Time of an unset jwksCacheTime; time.Since of it exceeds any TTL.
ZeroTime == -1

Nil == "nil"
NoKey == [X |-> -1, Y |-> -1]

\* ------------------------------------------------------------ strings
\* Role strings are sequences of one-character strings, so that
\* strings.EqualFold is computed and not assumed.
UpperLetters == <<"A","B","C","D","E","F","G","H","I","J","K","L","M",
                  "N","O","P","Q","R","S","T","U","V","W","X","Y","Z">>
LowerLetters == <<"a","b","c","d","e","f","g","h","i","j","k","l","m",
                  "n","o","p","q","r","s","t","u","v","w","x","y","z">>

\* unicode.SimpleFold restricted to ASCII: a letter folds to its lower case.
FoldChar(c) ==
    IF \E i \in 1..Len(UpperLetters) : UpperLetters[i] = c
    THEN LowerLetters[CHOOSE i \in 1..Len(UpperLetters) : UpperLetters[i] = c]
    ELSE c

\* A comparison that forgets the folding (what == would do).
EqualFoldExact(s, t) == s = t

\* strings.EqualFold(s, t)
EqualFold(s, t) ==
    /\ Len(s) = Len(t)
    /\ \A i \in 1..Len(s) : FoldChar(s[i]) = FoldChar(t[i])

RolePM == <<"P","M">>
RolePm == <<"p","m">>
RoleProjectManager ==
    <<"P","r","o","j","e","c","t"," ","M","a","n","a","g","e","r">>
RoleDeveloper == <<"D","e","v","e","l","o","p","e","r">>

\* ------------------------------------------------------------ JWKS documents
\* base64.RawURLEncoding: the alphabet A-Z a-z 0-9 - _ ; '=', '+' and '/' are
\* not part of it.  A coordinate is a sequence of characters; the characters
\* used by the documents below and their 6-bit values:
B64Value(c) ==
    CASE c = "A" -> 0 [] c = "B" -> 1 [] c = "C" -> 2 [] c = "D" -> 3
      [] c = "E" -> 4 [] c = "Q" -> 16 [] c = "g" -> 32 [] c = "w" -> 48
      [] c = "-" -> 62 [] c = "_" -> 63
      [] OTHER -> -1

RECURSIVE B64Number(_)
\* the digits of a coordinate read as one base-64 number
B64Number(s) ==
    IF s = <<>> THEN 0
    ELSE 64 * B64Number(SubSeq(s, 1, Len(s) - 1)) + B64Value(s[Len(s)])

RECURSIVE Pow2(_)
Pow2(n) == IF n = 0 THEN 1 ELSE 2 * Pow2(n - 1)

\* base64.RawURLEncoding.DecodeString(s): an error for a character outside the
\* alphabet and for a length of 4k+1; otherwise the whole bytes of the bit
\* string, the trailing bits dropped.
B64DecodeOk(s) ==
    /\ \A i \in 1..Len(s) : B64Value(s[i]) >= 0
    /\ Len(s) % 4 # 1

\* new(big.Int).SetBytes(bytes) of the decoded coordinate
B64DecodeInt(s) == B64Number(s) \div Pow2((6 * Len(s)) % 8)

JwkEntry(kid, kty, crv, x, y) ==
    [Kid |-> kid, Kty |-> kty, Crv |-> crv, X |-> x, Y |-> y]

\* The documents the key-discovery endpoint serves, one per rotation.
JwksDocs == <<
    \* generation 1
    << JwkEntry("k2", "RSA", "", <<"B","Q">>, <<"C","g">>),
       JwkEntry("k1", "EC", "P-256", <<"B","Q">>, <<"C","g">>),
       JwkEntry("k3", "EC", "P-384", <<"D","w">>, <<"D","w">>),
       JwkEntry("k4", "EC", "P-256", <<"=","A">>, <<"C","g">>),
       JwkEntry("k5", "EC", "P-256", <<"E","A">>, <<"E">>) >>,
    \* generation 2: k1 kept, k6 added
    << JwkEntry("k1", "EC", "P-256", <<"B","Q">>, <<"C","g">>),
       JwkEntry("k6", "EC", "P-256", <<"D","w">>, <<"E","A">>) >> >>

Kids == {"k1", "k2", "k3", "k4", "k5", "k6", "k9"}

\* The loop of fetchJWKS that skips the entries it cannot use.
JwkUsable(key) ==
    /\ key.Kty = "EC"
    /\ key.Crv = "P-256"
    /\ B64DecodeOk(key.X)
    /\ B64DecodeOk(key.Y)

JwkPublicKey(key) == [X |-> B64DecodeInt(key.X), Y |-> B64DecodeInt(key.Y)]

RECURSIVE ParseKeysUntilSkip(_, _)
\* A loop that stops at the first entry it cannot use.
ParseKeysUntilSkip(doc, keys) ==
    IF doc = <<>> THEN keys
    ELSE LET key == Head(doc)
         IN  IF JwkUsable(key)
             THEN ParseKeysUntilSkip(Tail(doc), [keys EXCEPT ![key.Kid] = JwkPublicKey(key)])
             ELSE keys

RECURSIVE ParseKeys(_, _)
\* keys := make(map); for _, key := range jwks.Keys { ... keys[key.Kid] = pubKey }
\* A map is a function from every key-id to a public key or NoKey (absent).
ParseKeys(doc, keys) ==
    IF doc = <<>> THEN keys
    ELSE LET key == Head(doc)
         IN  ParseKeys(Tail(doc),
                 IF JwkUsable(key)
                 THEN [keys EXCEPT ![key.Kid] = JwkPublicKey(key)]
                 ELSE keys)

EmptyKeys == [k \in Kids |-> NoKey]

\* A Go map variable: nil, or a map (possibly with no entries).
NilMap == [isNil |-> TRUE, keys |-> EmptyKeys]
MapOf(keys) == [isNil |-> FALSE, keys |-> keys]

\* The signing key pairs that exist: those behind k1 and k6, and a stranger's.
KeyK1 == JwkPublicKey(JwksDocs[1][2])
KeyK6 == JwkPublicKey(JwksDocs[2][2])
KeyStranger == [X |-> 7, Y |-> 7]

\* ------------------------------------------------------------ tokens
\* Who made the signature of a token: an HMAC under a secret, an ECDSA key
\* pair (named by its public key), or nobody.
SigHmac(secret) == [by |-> "hmac", secret |-> secret, pub |-> NoKey]
SigEcdsa(pub) == [by |-> "ecdsa", secret |-> "", pub |-> pub]
SigNone == [by |-> "none", secret |-> "", pub |-> NoKey]

\* The secret handed to jwt.Parse as a string, a key type HMAC does not take.
KeyString(secret) == [kind |-> "string", secret |-> secret, pub |-> NoKey]

\* What a key function returns to jwt.Parse.
KeyBytes(secret) == [kind |-> "bytes", secret |-> secret, pub |-> NoKey]
KeyEcdsa(pub) == [kind |-> "ecdsa", secret |-> "", pub |-> pub]
KeyNone == [kind |-> "none", secret |-> "", pub |-> NoKey]

FarExp == 100

\* A claim of the payload is a JSON string, absent, or of another JSON type.
AbsentClaim == "<absent>"
NumberClaim == "<number>"

\* A reading of a claim that takes whatever is there for a string.
ClaimStringRaw(v) == v

\* claims["email"].(string), claims["sub"].(string): the string, or "" when
\* the claim is absent or no string.
ClaimString(v) == IF v \in {AbsentClaim, NumberClaim} THEN "" ELSE v

\* The role claim the identity provider puts into its tokens.
RoleAuthenticated == <<"a","u","t","h","e","n","t","i","c","a","t","e","d">>

\* An Authorization header: absent, not "Bearer ...", a bearer string that is
\* no three-segment JWT, or a JWT with header {alg, kid}, claims
\* {sub, email, exp, role} and a signature.
Token(hdr, form, alg, kid, sig, exp, email) ==
    [hdr |-> hdr, form |-> form, alg |-> alg, kid |-> kid, sig |-> sig,
     exp |-> exp, sub |-> "u1", email |-> email, role |-> RoleAuthenticated]

NoToken == Token("missing", "malformed", "", "", SigNone, 0, "")

Emails == {"a@x.com", "c@x.com", ""}
ExpValues == {1, FarExp}

\* The exp field of a token whose claims hold no exp.
NoExp == -1

HmacTokens ==
    { Token("bearer", "jwt", "HS256", "", SigHmac(s), e, m) :
        s \in {"s3cr3t", "wrong", ""}, e \in ExpValues, m \in Emails }

EcdsaTokens ==
    { Token("bearer", "jwt", "ES256", k, SigEcdsa(p), e, m) :
        k \in {"", "k1", "k9"}, p \in {KeyK1, KeyStranger},
        e \in ExpValues, m \in {"a@x.com"} }

\* Algorithms of neither scheme, with signatures that would verify under the
\* secret or under a cached key if the scheme were not checked.
OtherAlgTokens ==
    { Token("bearer", "jwt", a, k, sg, FarExp, "a@x.com") :
        a \in {"none", "RS256", "XX999"}, k \in {"k1"},
        sg \in {SigNone, SigHmac("s3cr3t"), SigHmac(""), SigEcdsa(KeyK1)} }

\* Tokens signed under the secret whose email or sub claim is absent or no
\* string.
ClaimTokens ==
    { [Token("bearer", "jwt", "HS256", "", SigHmac("s3cr3t"), FarExp, m)
          EXCEPT !.sub = sb] :
        m \in {"a@x.com", AbsentClaim, NumberClaim}, sb \in {"u1", AbsentClaim} }

\* A token signed under the secret whose claims hold no exp.
NoExpTokens ==
    { Token("bearer", "jwt", "HS256", "", SigHmac("s3cr3t"), NoExp, "a@x.com") }

Tokens ==
    {NoToken,
     Token("basic", "malformed", "", "", SigNone, 0, ""),
     Token("bearer", "malformed", "", "", SigNone, 0, "")}
    \cup HmacTokens \cup EcdsaTokens \cup OtherAlgTokens \cup ClaimTokens
    \cup NoExpTokens

\* jwt.GetSigningMethod(alg): the registered method's type, or nil.
SigningMethod(alg) ==
    CASE alg \in {"HS256", "HS384", "HS512"} -> "HMAC"
      [] alg \in {"ES256", "ES384", "ES512"} -> "ECDSA"
      [] alg \in {"RS256", "RS384", "RS512"} -> "RSA"
      [] alg \in {"PS256", "PS384", "PS512"} -> "RSAPSS"
      [] alg = "EdDSA" -> "Ed25519"
      [] alg = "none" -> "none"
      [] OTHER -> Nil

\* The first statement of the key function sends every method to the shared
\* secret (a dispatch that does not look at the method).
KeyDispatchAny(method) == "secret"

\* The switch of the key function given to jwt.Parse.
KeyDispatch(method) ==
    CASE method = "ECDSA" -> "jwks"
      [] method = "HMAC" -> "secret"
      [] OTHER -> "reject"

\* method.Verify(signingString, signature, key)
SignatureOk(method, sig, key) ==
    CASE method = "HMAC" ->
            key.kind = "bytes" /\ sig.by = "hmac" /\ sig.secret = key.secret
      [] method = "ECDSA" ->
            key.kind = "ecdsa" /\ sig.by = "ecdsa" /\ sig.pub = key.pub
      [] OTHER -> FALSE

\* A validation that never looks at exp.
ExpiryOkNever(exp, t) == TRUE

\* The validator of jwt.Parse, called without WithExpirationRequired: an exp
\* that is present must lie after the current time.
ExpiryOk(exp, t) == exp = NoExp \/ t < exp

\* ------------------------------------------------------------ routes
MwAuth == [mw |-> "auth", roles |-> <<>>]
MwRole(roles) == [mw |-> "role", roles |-> roles]
HHealth == [mw |-> "health", roles |-> <<>>]
HGetProjects == [mw |-> "get_projects", roles |-> <<>>]
HGetProjectByID == [mw |-> "get_project_by_id", roles |-> <<>>]
HCreateProject == [mw |-> "create_project", roles |-> <<>>]
HRegister == [mw |-> "register", roles |-> <<>>]
HBugs == [mw |-> "bugs", roles |-> <<>>]

RouterRoles == <<RolePM, RoleProjectManager>>

\* SetupRouter: the public group, the authenticated group, the PM-only group.
\* api.GET("/health", handlers.HealthCheck)
ChainHealth == <<HHealth>>
ChainPublic == <<HRegister>>
\* auth.GET("/projects", handlers.GetProjects)
ChainAuth == <<MwAuth, HGetProjects>>
\* auth.GET("/projects/:id", handlers.GetProjectByID)
ChainProject == <<MwAuth, HGetProjectByID>>
\* The PM group registered outside the authenticated group's middleware.
ChainPMRoleFirst == <<MwRole(RouterRoles), MwAuth, HCreateProject>>
ChainPM == <<MwAuth, MwRole(RouterRoles), HCreateProject>>
\* auth.POST("/projects/:id/bugs", handlers.CreateBugs)
ChainBugs == <<MwAuth, HBugs>>
RouterChains == {ChainHealth, ChainPublic, ChainAuth, ChainProject, ChainBugs, ChainPM}

\* Other compositions of the exported middleware.
UnitChains ==
    {ChainPublic, ChainAuth, ChainPM} \cup
    { <<MwRole(RouterRoles), HCreateProject>>,
      <<MwRole(<<>>), HCreateProject>>,
      <<MwAuth, MwRole(<<>>), HCreateProject>>,
      <<MwAuth, MwRole(<<RolePM>>), HCreateProject>> }

\* ------------------------------------------------------------ state
Reqs == {"q1", "q2"}
NoReq == "none"

NoUser == [SupabaseUserID |-> "", Email |-> "", RegistrationID |-> "", Role |-> <<>>]
\* c.Keys["user"]: absent, a *UserContext, or a value of another type.
SlotAbsent == [kind |-> "absent", user |-> NoUser]
SlotUser(u) == [kind |-> "user", user |-> u]
SlotOther == [kind |-> "other", user |-> NoUser]

NoResp == [status |-> 0, error |-> "", suffix |-> <<>>, db_status |-> ""]

\* The key-discovery endpoint and the database answer, or do not.
AllUp == [jwks |-> TRUE, db |-> TRUE]

\* CreateBugs: the :id of the path, the number of bugs of the request body
\* and the currentMax read.
NoBatch == [projectID |-> "p1", n |-> 0, currentMax |-> 0]
Row(id, email, role) == [id |-> id, email |-> email, role |-> role]

VARIABLES
    now,            \* the clock, in hours
    secret,         \* config.Cfg.SupabaseJWTSecret
    remoteGen,      \* which document the key-discovery endpoint serves
    jwksCache,      \* NilMap or the map kid -> public key
    jwksCacheTime,  \* ZeroTime or the time of the last install
    rlocked,        \* jwksCacheMu: the requests holding the read lock
    wlocked,        \* jwksCacheMu: the request holding the write lock
    registrations,  \* the rows of the registrations table
    pc,             \* per request: where its goroutine stands
    token,          \* per request: the Authorization header it came with
    chain,          \* per request: the handlers gin runs for its route
    idx,            \* per request: c.index, the handler to run next (from 0)
    slot,           \* per request: c.Keys["user"]
    resp,           \* per request: the response written
    lkey,           \* per request: the key the key function returned
    lkeys,          \* per request: the map fetchJWKS has built
    arrivedAt,      \* per request: the time it arrived
    installedAt,    \* per request: when its fetchJWKS wrote the cache, or ZeroTime
    trace,          \* per request: the steps taken, in order
    installed,      \* the (map, time) pair the last completed fetchJWKS wrote
    up,             \* which remote services answer: the key endpoint, the store
    bugs,           \* the rows of the bugs table of one project, in insert order
    bug             \* per request: the batch CreateBugs is storing

vars == <<now, secret, remoteGen, jwksCache, jwksCacheTime, rlocked, wlocked,
          registrations, pc, token, chain, idx, slot, resp, lkey, lkeys,
          arrivedAt, installedAt, trace, installed, up, bugs, bug>>

reqVars == <<pc, token, chain, idx, slot, resp, lkey, lkeys, arrivedAt,
             installedAt, trace>>
cacheVars == <<jwksCache, jwksCacheTime, rlocked, wlocked, installed>>
envVars == <<now, secret, remoteGen, registrations>>
auxVars == <<up, bugs, bug>>

\* ------------------------------------------------------------ bug numbers
Digits == <<"0","1","2","3","4","5","6","7","8","9">>

RECURSIVE Itoa(_)
\* the decimal digits of a number, as %d prints them
Itoa(k) ==
    IF k < 10 THEN <<Digits[k + 1]>>
    ELSE Itoa(k \div 10) \o <<Digits[(k % 10) + 1]>>

\* fmt.Sprintf("BUG-%d", k)
BugNumber(k) == <<"B","U","G","-">> \o Itoa(k)

DigitValue(c) == CHOOSE d \in 0..9 : Digits[d + 1] = c

RECURSIVE Atoi(_)
Atoi(s) ==
    IF s = <<>> THEN 0
    ELSE 10 * Atoi(SubSeq(s, 1, Len(s) - 1)) + DigitValue(s[Len(s)])

\* CAST(SUBSTRING(bug_number FROM 5) AS INTEGER)
NumberOf(bugNumber) == Atoi(SubSeq(bugNumber, 5, Len(bugNumber)))

\* SELECT COALESCE(MAX(CAST(SUBSTRING(bug_number FROM 5) AS INTEGER)), 0)
\* FROM bugs WHERE project_id = $1
CurrentMax(rows) ==
    LET nums == { NumberOf(rows[i].bug_number) : i \in DOMAIN rows }
    IN  IF nums = {} THEN 0
        ELSE CHOOSE m \in nums : \A k \in nums : k <= m

\* A row of the bugs table of the project: its number, who created it and
\* which item of the request body it was made from.
BugRow(k, by, item) == [bug_number |-> BugNumber(k), created_by |-> by, item |-> item]

\* for i, bug := range input.Bugs { bugNumber := "BUG-" currentMax+i+1; batch.Queue(...) }
\* (i counts from 0 in the code and from 1 here)
BatchRows(currentMax, n, by) == [i \in 1..n |-> BugRow(currentMax + i, by, i)]

Secrets == {"s3cr3t", ""}

\* The process has started: the cache is empty and no request is in flight.
InitProcess ==
    /\ now = 0
    /\ remoteGen = 1
    /\ jwksCache = NilMap
    /\ jwksCacheTime = ZeroTime
    /\ rlocked = {}
    /\ wlocked = NoReq
    /\ pc = [r \in Reqs |-> "idle"]
    /\ token = [r \in Reqs |-> NoToken]
    /\ chain = [r \in Reqs |-> <<>>]
    /\ idx = [r \in Reqs |-> 0]
    /\ slot = [r \in Reqs |-> SlotAbsent]
    /\ resp = [r \in Reqs |-> NoResp]
    /\ lkey = [r \in Reqs |-> KeyNone]
    /\ lkeys = [r \in Reqs |-> NilMap]
    /\ arrivedAt = [r \in Reqs |-> 0]
    /\ installedAt = [r \in Reqs |-> ZeroTime]
    /\ trace = [r \in Reqs |-> <<>>]
    /\ installed = [cache |-> NilMap, time |-> ZeroTime]
    /\ up = AllUp
    /\ bug = [r \in Reqs |-> NoBatch]

\* The server starts with one registration, and the project of the bugs
\* route holds bugs BUG-1 onward, one short of StoredBugs + MaxNew.
Init ==
    /\ secret \in Secrets
    /\ registrations = {Row("r1", "a@x.com", RolePM)}
    /\ bugs = BatchRows(0, StoredBugs + MaxNew - 1, "r1")
    /\ InitProcess

\* ------------------------------------------------------------ gin
\* The handler c.index points at.
Current(r) == chain[r][idx[r] + 1]

AtMw(r, mw) ==
    /\ pc[r] = "chain"
    /\ idx[r] < Len(chain[r])
    /\ Current(r).mw = mw

\* gin.H{"error": text}, and gin.H{"error": text + joined}: the text is a
\* string and what is appended to it a sequence of characters.
H(text) == [error |-> text, suffix |-> <<>>, db_status |-> ""]
HJoined(text, joined) == [error |-> text, suffix |-> joined]

Log(r, ev) == trace' = [trace EXCEPT ![r] = Append(@, ev)]
Log2(r, ev1, ev2) == trace' = [trace EXCEPT ![r] = Append(Append(@, ev1), ev2)]

\* A rejection that writes the response and returns without aborting: gin
\* goes on with the next handler of the chain.
AbortForgotten(r, status, body) ==
    /\ resp' = [resp EXCEPT ![r] =
                 [status |-> status, error |-> body.error, suffix |-> body.suffix,
                  db_status |-> ""]]
    /\ pc' = [pc EXCEPT ![r] = "chain"]
    /\ idx' = [idx EXCEPT ![r] = @ + 1]

\* c.AbortWithStatusJSON(status, body); return
\* c.index = abortIndex: no later handler of the chain runs.
AbortWithStatusJSON(r, status, body) ==
    /\ resp' = [resp EXCEPT ![r] =
                 [status |-> status, error |-> body.error, suffix |-> body.suffix,
                  db_status |-> ""]]
    /\ pc' = [pc EXCEPT ![r] = "done"]
    /\ idx' = idx

\* c.JSON(status, gin.H{"error": error}); return
Answer(r, status, error) ==
    /\ resp' = [resp EXCEPT ![r] = [status |-> status, error |-> error, suffix |-> <<>>, db_status |-> ""]]
    /\ pc' = [pc EXCEPT ![r] = "done"]

\* c.Next() as the last statement of a middleware: gin runs the next handler.
CNext(r) ==
    /\ pc' = [pc EXCEPT ![r] = "chain"]
    /\ idx' = [idx EXCEPT ![r] = @ + 1]

\* GetUser(c): nil unless c.Keys["user"] holds a *UserContext.
GetUser(s) ==
    IF s.kind = "user"
    THEN [isNil |-> FALSE, user |-> s.user]
    ELSE [isNil |-> TRUE, user |-> NoUser]

\* ------------------------------------------------------------ arrival
\* A request arrives on a route with an Authorization header, the :id of its
\* path (the project "p1", or "" for an empty segment) and a body, of which
\* only the number n of bugs it lists is kept (0: no body, or one that
\* ShouldBindJSON rejects); gin hands it a fresh context and starts the chain.
ArriveBody(r, tok, ch, s0, id, n) ==
    /\ pc[r] = "idle"
    /\ pc' = [pc EXCEPT ![r] = "chain"]
    /\ token' = [token EXCEPT ![r] = tok]
    /\ chain' = [chain EXCEPT ![r] = ch]
    /\ idx' = [idx EXCEPT ![r] = 0]
    /\ slot' = [slot EXCEPT ![r] = s0]
    /\ resp' = [resp EXCEPT ![r] = NoResp]
    /\ lkey' = [lkey EXCEPT ![r] = KeyNone]
    /\ lkeys' = [lkeys EXCEPT ![r] = NilMap]
    /\ arrivedAt' = [arrivedAt EXCEPT ![r] = now]
    /\ installedAt' = [installedAt EXCEPT ![r] = ZeroTime]
    /\ trace' = [trace EXCEPT ![r] = <<>>]
    /\ bug' = [bug EXCEPT ![r] = [projectID |-> id, n |-> n, currentMax |-> 0]]
    /\ UNCHANGED <<cacheVars, envVars>>
    /\ UNCHANGED <<up, bugs>>

\* A request arrives on a route with an Authorization header, for the
\* project "p1" where the path has an :id, and no body that binds.
Arrive(r, tok, ch, s0) == ArriveBody(r, tok, ch, s0, "p1", 0)

\* The bugs listed by the requests for the project that have arrived and are
\* not answered yet.
RECURSIVE BugsInFlight(_)
BugsInFlight(rs) ==
    IF rs = {} THEN 0
    ELSE LET r == CHOOSE q \in rs : TRUE
         IN  (IF pc[r] \in {"idle", "done"} \/ bug[r].projectID = ""
              THEN 0 ELSE bug[r].n)
                 + BugsInFlight(rs \ {r})

\* POST /projects/:id/bugs with a body that lists n bugs.  The clients stop
\* posting bugs for the project once it would hold StoredBugs + MaxNew of
\* them if every request in flight were served.
PostBugs(r, tok, id, n) ==
    /\ pc[r] = "idle"
    /\ id # "" => Len(bugs) + BugsInFlight(Reqs) + n <= StoredBugs + MaxNew
    /\ ArriveBody(r, tok, ChainBugs, SlotAbsent, id, n)

\* The response has gone out; the context is recycled.
Finish(r) ==
    /\ pc[r] = "done"
    /\ pc' = [pc EXCEPT ![r] = "idle"]
    /\ token' = [token EXCEPT ![r] = NoToken]
    /\ chain' = [chain EXCEPT ![r] = <<>>]
    /\ idx' = [idx EXCEPT ![r] = 0]
    /\ slot' = [slot EXCEPT ![r] = SlotAbsent]
    /\ resp' = [resp EXCEPT ![r] = NoResp]
    /\ lkey' = [lkey EXCEPT ![r] = KeyNone]
    /\ lkeys' = [lkeys EXCEPT ![r] = NilMap]
    /\ arrivedAt' = [arrivedAt EXCEPT ![r] = 0]
    /\ installedAt' = [installedAt EXCEPT ![r] = ZeroTime]
    /\ trace' = [trace EXCEPT ![r] = <<>>]
    /\ UNCHANGED <<cacheVars, envVars>>
    /\ bug' = [bug EXCEPT ![r] = NoBatch]
    /\ UNCHANGED <<up, bugs>>

\* ------------------------------------------------------------ AuthMiddleware
\* Step 1: the Authorization header must be "Bearer <token>".
AuthHeader(r) ==
    /\ AtMw(r, "auth")
    /\ IF token[r].hdr # "bearer"
       THEN /\ AbortWithStatusJSON(r, StatusUnauthorized,
                    H("Missing or invalid authorization header"))
            /\ Log(r, "header_rejected")
       ELSE /\ pc' = [pc EXCEPT ![r] = "auth_parse"]
            /\ Log(r, "header_ok")
            /\ UNCHANGED <<resp, idx>>
    /\ UNCHANGED <<token, chain, slot, lkey, lkeys, arrivedAt, installedAt, cacheVars, envVars>>
    /\ UNCHANGED auxVars

\* A key function that asks for the key whatever the kid is.
KidMissingNever(kid) == FALSE

\* kid, _ := token.Header["kid"].(string); if kid == "" { ... }
KidMissing(kid) == kid = ""

\* Step 2, first half: jwt.Parse splits and decodes the token, finds the
\* signing method of its alg and calls the key function.
AuthParse(r) ==
    /\ pc[r] = "auth_parse"
    /\ LET tok == token[r]
           method == SigningMethod(tok.alg)
           route == KeyDispatch(method)
       IN  IF tok.form # "jwt" \/ method = Nil
           THEN \* malformed token, or an alg no signing method is registered for
                /\ AbortWithStatusJSON(r, StatusUnauthorized, H("Invalid or expired token"))
                /\ Log(r, "parse_rejected")
                /\ UNCHANGED lkey
           ELSE IF route = "jwks"
           THEN IF KidMissing(tok.kid)
                THEN \* missing kid in token header
                     /\ AbortWithStatusJSON(r, StatusUnauthorized, H("Invalid or expired token"))
                     /\ Log(r, "kid_rejected")
                     /\ UNCHANGED lkey
                ELSE \* return getPublicKey(kid)
                     /\ pc' = [pc EXCEPT ![r] = "gk_rlock"]
                     /\ Log(r, "get_key")
                     /\ UNCHANGED <<resp, idx, lkey>>
           ELSE IF route = "secret"
           THEN \* return []byte(config.Cfg.SupabaseJWTSecret), nil
                /\ pc' = [pc EXCEPT ![r] = "auth_verify"]
                /\ lkey' = [lkey EXCEPT ![r] = KeyBytes(secret)]
                /\ Log(r, "secret_key")
                /\ UNCHANGED <<resp, idx>>
           ELSE \* unexpected signing method
                /\ AbortWithStatusJSON(r, StatusUnauthorized, H("Invalid or expired token"))
                /\ Log(r, "alg_rejected")
                /\ UNCHANGED lkey
    /\ UNCHANGED <<token, chain, slot, lkeys, arrivedAt, installedAt, cacheVars, envVars>>
    /\ UNCHANGED auxVars

\* Step 2, second half: jwt.Parse verifies the signature under the key the key
\* function returned, then validates the registered claims (exp).
AuthVerify(r) ==
    /\ pc[r] = "auth_verify"
    /\ LET tok == token[r]
       IN  IF /\ SignatureOk(SigningMethod(tok.alg), tok.sig, lkey[r])
              /\ ExpiryOk(tok.exp, now)
           THEN /\ pc' = [pc EXCEPT ![r] = "auth_claims"]
                /\ Log(r, "verify_ok")
                /\ UNCHANGED <<resp, idx>>
           ELSE /\ AbortWithStatusJSON(r, StatusUnauthorized, H("Invalid or expired token"))
                /\ Log(r, "verify_rejected")
    /\ UNCHANGED <<token, chain, slot, lkey, lkeys, arrivedAt, installedAt, cacheVars, envVars>>
    /\ UNCHANGED auxVars

\* Step 3: the email claim must be a non-empty string.
AuthClaims(r) ==
    /\ pc[r] = "auth_claims"
    /\ IF ClaimString(token[r].email) = ""
       THEN /\ AbortWithStatusJSON(r, StatusUnauthorized, H("Token missing email claim"))
            /\ Log(r, "email_rejected")
       ELSE /\ pc' = [pc EXCEPT ![r] = "auth_query"]
            /\ Log(r, "claims_ok")
            /\ UNCHANGED <<resp, idx>>
    /\ UNCHANGED <<token, chain, slot, lkey, lkeys, arrivedAt, installedAt, cacheVars, envVars>>
    /\ UNCHANGED auxVars

\* A lookup in the table as it was when the process started.
QueryRowsAtStartup(email) ==
    { row \in {Row("r1", "a@x.com", RolePM)} : row.email = email }

\* SELECT id, role FROM registrations WHERE email = $1
QueryRows(email) == { row \in registrations : row.email = email }

\* ctx, cancel := context.WithTimeout(context.Background(), 5*time.Second):
\* the lookup returns, with an error at the latest when the deadline passes,
\* whether the database answers or not.
QueryReturns(answers) == TRUE

\* A store of the user in a variable all requests share.
CSetShared(r, u) == slot' = [q \in Reqs |-> SlotUser(u)]

\* c.Set(UserContextKey, &userCtx): the user goes into this request's context.
CSet(r, u) == slot' = [slot EXCEPT ![r] = SlotUser(u)]

\* Steps 4 and 5: QueryRow(...).Scan(&id, &role); on any error (the query
\* failed, or it found no row) the request is answered "User not registered";
\* otherwise the user is stored and c.Next().
AuthQuery(r) ==
    /\ pc[r] = "auth_query"
    /\ LET email == ClaimString(token[r].email)
           userID == ClaimString(token[r].sub)
       IN  \/ \* err: the context deadline, the pool, the connection
              /\ QueryReturns(up.db)
              /\ AbortWithStatusJSON(r, StatusUnauthorized, H("User not registered"))
              /\ Log(r, "query_error")
              /\ UNCHANGED slot
           \/ \* err == pgx.ErrNoRows
              /\ up.db
              /\ QueryRows(email) = {}
              /\ AbortWithStatusJSON(r, StatusUnauthorized, H("User not registered"))
              /\ Log(r, "query_no_row")
              /\ UNCHANGED slot
           \/ \E row \in QueryRows(email) :
                /\ up.db
                /\ CSet(r, [SupabaseUserID |-> userID, Email |-> email,
                            RegistrationID |-> row.id, Role |-> row.role])
                /\ Log2(r, "query_ok", "user_set")
                /\ CNext(r)
                /\ UNCHANGED resp
    /\ UNCHANGED <<token, chain, lkey, lkeys, arrivedAt, installedAt, cacheVars, envVars>>
    /\ UNCHANGED auxVars

\* ------------------------------------------------------------ jwksCacheMu
\* A lock that lets a reader in while a writer holds it.
CanRLockAlways == TRUE

\* jwksCacheMu.RLock() returns once no writer holds the lock.
CanRLock == wlocked = NoReq

\* jwksCacheMu.Lock() returns once nobody holds the lock.
CanLock == wlocked = NoReq /\ rlocked = {}

\* A cache that never expires once it has been filled.
NeedsRefreshNever(cache, t) == cache.isNil

\* needsRefresh := jwksCache == nil || time.Since(jwksCacheTime) > jwksCacheTTL
NeedsRefresh(cache, t) ==
    \/ cache.isNil
    \/ t = ZeroTime
    \/ now - t > jwksCacheTTL

\* key, ok := jwksCache[kid]
HasKey(cache, kid) == ~cache.isNil /\ cache.keys[kid] # NoKey

\* A getPublicKey that fetches again when it has no key to return.
KeyFuncRetries(r, ev) ==
    /\ pc' = [pc EXCEPT ![r] = "f_get"]
    /\ Log(r, ev)
    /\ UNCHANGED <<resp, idx>>

\* The key function's error reaches jwt.Parse, which fails; AuthMiddleware
\* answers 401.
KeyFuncFails(r, ev) ==
    /\ AbortWithStatusJSON(r, StatusUnauthorized, H("Invalid or expired token"))
    /\ Log(r, ev)

KeyFuncReturns(r, key, ev) ==
    /\ lkey' = [lkey EXCEPT ![r] = KeyEcdsa(key)]
    /\ pc' = [pc EXCEPT ![r] = "auth_verify"]
    /\ Log(r, ev)
    /\ UNCHANGED <<resp, idx>>

\* A return path that leaves the read lock held.
RUnlockForgotten(r) == rlocked' = rlocked

\* jwksCacheMu.RUnlock()
RUnlock(r) == rlocked' = rlocked \ {r}

\* jwksCacheMu.RLock()
GetKeyRLock(r) ==
    /\ pc[r] = "gk_rlock"
    /\ CanRLock
    /\ rlocked' = rlocked \cup {r}
    /\ pc' = [pc EXCEPT ![r] = "gk_check"]
    /\ UNCHANGED <<token, chain, idx, slot, resp, lkey, lkeys, arrivedAt, installedAt, trace>>
    /\ UNCHANGED <<jwksCache, jwksCacheTime, wlocked, installed, envVars>>
    /\ UNCHANGED auxVars

\* The first look at the cache, under the read lock: a fresh cache that holds
\* the kid answers; otherwise the lock is released and the keys are fetched.
GetKeyCheck(r) ==
    /\ pc[r] = "gk_check"
    /\ RUnlock(r)
    /\ LET kid == token[r].kid
       IN  IF ~NeedsRefresh(jwksCache, jwksCacheTime) /\ HasKey(jwksCache, kid)
           THEN KeyFuncReturns(r, jwksCache.keys[kid], "cache_hit")
           ELSE /\ pc' = [pc EXCEPT ![r] = "f_get"]
                /\ Log(r, "cache_miss")
                /\ UNCHANGED <<resp, idx, lkey>>
    /\ UNCHANGED <<token, chain, slot, lkeys, arrivedAt, installedAt>>
    /\ UNCHANGED <<jwksCache, jwksCacheTime, wlocked, installed, envVars>>
    /\ UNCHANGED auxVars

\* ------------------------------------------------------------ fetchJWKS
\* A fetch that builds only the keys the cache does not hold yet.
FetchedKeysNew(doc, cache) ==
    [k \in Kids |-> IF HasKey(cache, k) THEN NoKey ELSE ParseKeys(doc, EmptyKeys)[k]]

\* keys := make(map[string]*ecdsa.PublicKey), filled from the entries of the
\* document alone: what the cache holds plays no part.
FetchedKeys(doc, cache) == ParseKeys(doc, EmptyKeys)

\* A client without a timeout: the GET returns only if the endpoint answers.
GetReturnsNoTimeout(answers) == answers

\* client := &http.Client{Timeout: 10 * time.Second}: the GET returns, with an
\* error at the latest when the timeout expires, whether the endpoint answers
\* or not.
GetReturns(answers) == TRUE

\* A fetchJWKS that empties the cache before it asks the endpoint.
FetchGetWipes(r) ==
    /\ pc[r] = "f_get"
    /\ \/ /\ GetReturns(up.jwks)
          /\ KeyFuncFails(r, "fetch_failed")
          /\ jwksCache' = NilMap
          /\ jwksCacheTime' = ZeroTime
          /\ UNCHANGED lkeys
       \/ /\ up.jwks
          /\ lkeys' = [lkeys EXCEPT ![r] =
                          MapOf(FetchedKeys(JwksDocs[remoteGen], jwksCache))]
          /\ pc' = [pc EXCEPT ![r] = "f_lock"]
          /\ Log(r, "fetch_ok")
          /\ UNCHANGED <<resp, idx, jwksCache, jwksCacheTime>>
    /\ UNCHANGED <<token, chain, slot, lkey, arrivedAt, installedAt>>
    /\ UNCHANGED <<rlocked, wlocked, installed, envVars>>
    /\ UNCHANGED auxVars

\* client.Get and the decoding of the body: either fails (transport error,
\* timeout, a body that is no JSON) and the error goes back through
\* getPublicKey, or, when the endpoint answers, yields the keys of the
\* document served at this moment.
FetchGet(r) ==
    /\ pc[r] = "f_get"
    /\ \/ /\ GetReturns(up.jwks)
          /\ KeyFuncFails(r, "fetch_failed")
          /\ UNCHANGED lkeys
       \/ /\ up.jwks
          /\ lkeys' = [lkeys EXCEPT ![r] =
                          MapOf(FetchedKeys(JwksDocs[remoteGen], jwksCache))]
          /\ pc' = [pc EXCEPT ![r] = "f_lock"]
          /\ Log(r, "fetch_ok")
          /\ UNCHANGED <<resp, idx>>
    /\ UNCHANGED <<token, chain, slot, lkey, arrivedAt, installedAt, cacheVars, envVars>>
    /\ UNCHANGED auxVars

\* jwksCacheMu.Lock(); jwksCache = keys
FetchLockStore(r) ==
    /\ pc[r] = "f_lock"
    /\ CanLock
    /\ wlocked' = r
    /\ jwksCache' = lkeys[r]
    /\ pc' = [pc EXCEPT ![r] = "f_time"]
    /\ UNCHANGED <<token, chain, idx, slot, resp, lkey, lkeys, arrivedAt, installedAt, trace>>
    /\ UNCHANGED <<jwksCacheTime, rlocked, installed, envVars>>
    /\ UNCHANGED auxVars

\* jwksCacheTime = time.Now(); jwksCacheMu.Unlock(); return nil
FetchTimeUnlock(r) ==
    /\ pc[r] = "f_time"
    /\ jwksCacheTime' = now
    /\ wlocked' = NoReq
    /\ installed' = [cache |-> lkeys[r], time |-> now]
    /\ pc' = [pc EXCEPT ![r] = "gk_rlock2"]
    /\ installedAt' = [installedAt EXCEPT ![r] = now]
    /\ Log(r, "cache_installed")
    /\ UNCHANGED <<token, chain, idx, slot, resp, lkey, lkeys, arrivedAt>>
    /\ UNCHANGED <<jwksCache, rlocked, envVars>>
    /\ UNCHANGED auxVars

\* jwksCacheMu.RLock(); defer jwksCacheMu.RUnlock()
GetKeyRLock2(r) ==
    /\ pc[r] = "gk_rlock2"
    /\ CanRLock
    /\ rlocked' = rlocked \cup {r}
    /\ pc' = [pc EXCEPT ![r] = "gk_lookup"]
    /\ UNCHANGED <<token, chain, idx, slot, resp, lkey, lkeys, arrivedAt, installedAt, trace>>
    /\ UNCHANGED <<jwksCache, jwksCacheTime, wlocked, installed, envVars>>
    /\ UNCHANGED auxVars

\* The look at the cache after the fetch: the key, or "key ID not found".
GetKeyLookup(r) ==
    /\ pc[r] = "gk_lookup"
    /\ RUnlock(r)
    /\ LET kid == token[r].kid
       IN  IF HasKey(jwksCache, kid)
           THEN KeyFuncReturns(r, jwksCache.keys[kid], "lookup_hit")
           ELSE /\ KeyFuncFails(r, "key_not_found")
                /\ UNCHANGED lkey
    /\ UNCHANGED <<token, chain, slot, lkeys, arrivedAt, installedAt>>
    /\ UNCHANGED <<jwksCache, jwksCacheTime, wlocked, installed, envVars>>
    /\ UNCHANGED auxVars

\* ------------------------------------------------------------ RequireRole
\* A loop that passes everyone when there is nothing to compare with.
RoleAllowedVacuous(userRole, allowedRoles) ==
    \/ allowedRoles = <<>>
    \/ \E i \in 1..Len(allowedRoles) : EqualFold(userRole, allowedRoles[i])

\* for _, role := range allowedRoles { if strings.EqualFold(user.Role, role) ...
RoleAllowed(userRole, allowedRoles) ==
    \E i \in 1..Len(allowedRoles) : EqualFold(userRole, allowedRoles[i])

\* A check that lets a request without a user through.
RoleDecisionOpen(user, allowedRoles) ==
    IF user.isNil \/ RoleAllowed(user.user.Role, allowedRoles)
    THEN "next"
    ELSE "forbidden"

RECURSIVE Join(_, _)
\* strings.Join(elems, sep)
Join(elems, sep) ==
    IF elems = <<>> THEN <<>>
    ELSE IF Len(elems) = 1 THEN elems[1]
    ELSE elems[1] \o sep \o Join(Tail(elems), sep)

\* The body of the middleware RequireRole returns.
RoleDecision(user, allowedRoles) ==
    IF user.isNil THEN "unauthorized"
    ELSE IF RoleAllowed(user.user.Role, allowedRoles) THEN "next"
    ELSE "forbidden"

RequireRole(r) ==
    /\ AtMw(r, "role")
    /\ LET decision == RoleDecision(GetUser(slot[r]), Current(r).roles)
       IN  IF decision = "unauthorized"
           THEN /\ AbortWithStatusJSON(r, StatusUnauthorized, H("Authentication required"))
                /\ Log(r, "role_no_user")
           ELSE IF decision = "next"
           THEN /\ CNext(r)
                /\ Log(r, "role_ok")
                /\ UNCHANGED resp
           ELSE /\ AbortWithStatusJSON(r, StatusForbidden,
                        HJoined("Insufficient permissions. Required role: ",
                                Join(Current(r).roles, <<" ","o","r"," ">>)))
                /\ Log(r, "role_forbidden")
    /\ UNCHANGED <<token, chain, slot, lkey, lkeys, arrivedAt, installedAt, cacheVars, envVars>>
    /\ UNCHANGED auxVars

\* ------------------------------------------------------------ handlers
\* The project was created by r1 and has no other member.
HasAccess(id) == id \in {"r1"}

\* The text of a body that fails ShouldBindJSON is the validator's.
BindingError == "<validation text>"

\* CreateProject: the user of the context, the body, the start date, the
\* insert.
CreateProject(r) ==
    /\ AtMw(r, "create_project")
    /\ LET user == GetUser(slot[r])
       IN  \/ /\ user.isNil
              /\ Answer(r, StatusUnauthorized, "Authentication required")
              /\ Log2(r, "handler", "handler_no_user")
           \/ /\ ~user.isNil
              /\ Answer(r, StatusBadRequest, BindingError)
              /\ Log2(r, "handler", "handler_bad_request")
           \/ /\ ~user.isNil
              /\ Answer(r, StatusBadRequest, "Invalid start_date format. Use YYYY-MM-DD")
              /\ Log2(r, "handler", "handler_bad_request")
           \/ /\ ~user.isNil
              /\ QueryReturns(up.db)
              /\ Answer(r, StatusInternalServerError, "Failed to create project")
              /\ Log2(r, "handler", "handler_db_error")
           \/ /\ ~user.isNil
              /\ up.db
              /\ Answer(r, StatusCreated, "")
              /\ Log2(r, "handler", "handler_served")
    /\ UNCHANGED <<token, chain, idx, slot, lkey, lkeys, arrivedAt, installedAt, cacheVars, envVars>>
    /\ UNCHANGED auxVars

\* GetProjects up to the count query: the user of the context, the status
\* filter, the count of the matching projects.
GetProjects(r) ==
    /\ AtMw(r, "get_projects")
    /\ LET user == GetUser(slot[r])
       IN  \/ /\ user.isNil
              /\ Answer(r, StatusUnauthorized, "Authentication required")
              /\ Log2(r, "handler", "handler_no_user")
           \/ /\ ~user.isNil
              /\ Answer(r, StatusBadRequest,
                        "Invalid status. Must be one of: active, planning, on_hold, completed")
              /\ Log2(r, "handler", "handler_bad_request")
           \/ /\ ~user.isNil
              /\ QueryReturns(up.db)
              /\ Answer(r, StatusInternalServerError, "Failed to fetch projects")
              /\ Log2(r, "handler", "handler_db_error")
           \/ /\ ~user.isNil
              /\ up.db
              /\ pc' = [pc EXCEPT ![r] = "get_projects_list"]
              /\ Log2(r, "handler", "projects_counted")
              /\ UNCHANGED resp
    /\ UNCHANGED <<token, chain, idx, slot, lkey, lkeys, arrivedAt, installedAt, cacheVars, envVars>>
    /\ UNCHANGED auxVars

\* GetProjects from the list query on: the query, the scan of its rows, the
\* answer.  The two queries are no transaction.
GetProjectsList(r) ==
    /\ pc[r] = "get_projects_list"
    /\ \/ /\ QueryReturns(up.db)
          /\ Answer(r, StatusInternalServerError, "Failed to fetch projects")
          /\ Log(r, "handler_db_error")
       \/ /\ up.db
          /\ Answer(r, StatusOK, "")
          /\ Log(r, "handler_served")
    /\ UNCHANGED <<token, chain, idx, slot, lkey, lkeys, arrivedAt, installedAt, cacheVars, envVars>>
    /\ UNCHANGED auxVars

\* HealthCheck: the ping of the pool, on the context of the request.  The
\* ping succeeds only if the database answers; it fails when the database
\* does not answer, and also while it does (the context of the request is
\* cancelled, no connection of the pool comes free).  Either way the answer
\* is 200.
HealthCheck(r) ==
    /\ AtMw(r, "health")
    /\ \E dbStatus \in {"up", "down"} :
          /\ dbStatus = "up" => up.db
          /\ resp' = [resp EXCEPT ![r] =
                       [status |-> StatusOK, error |-> "", suffix |-> <<>>,
                        db_status |-> dbStatus]]
    /\ pc' = [pc EXCEPT ![r] = "done"]
    /\ Log(r, "health")
    /\ UNCHANGED <<token, chain, idx, slot, lkey, lkeys, arrivedAt, installedAt, cacheVars, envVars>>
    /\ UNCHANGED auxVars

\* GetProjectByID: the user of the context and the query of the project,
\* which finds a row only for a project the user created or is a member of.
\* (The route gives the handler a non-empty id.)
GetProjectByID(r) ==
    /\ AtMw(r, "get_project_by_id")
    /\ LET user == GetUser(slot[r])
       IN  \/ /\ user.isNil
              /\ Answer(r, StatusUnauthorized, "Authentication required")
              /\ Log2(r, "handler", "handler_no_user")
           \/ /\ ~user.isNil
              /\ up.db
              /\ ~HasAccess(user.user.RegistrationID)
              /\ Answer(r, StatusNotFound, "Project not found")
              /\ Log2(r, "handler", "handler_not_found")
           \/ /\ ~user.isNil
              /\ QueryReturns(up.db)
              /\ Answer(r, StatusInternalServerError, "Failed to fetch project")
              /\ Log2(r, "handler", "handler_db_error")
           \/ /\ ~user.isNil
              /\ up.db
              /\ HasAccess(user.user.RegistrationID)
              /\ Answer(r, StatusOK, "")
              /\ Log2(r, "handler", "handler_served")
    /\ UNCHANGED <<token, chain, idx, slot, lkey, lkeys, arrivedAt, installedAt, cacheVars, envVars>>
    /\ UNCHANGED auxVars

\* ------------------------------------------------------------ CreateBugs
\* A table without the constraint on the bug number.
NumberTakenNever(rows, bugNumber) == FALSE

\* CONSTRAINT uq_bug_number_project UNIQUE (project_id, bug_number)
NumberTaken(rows, bugNumber) ==
    \E i \in DOMAIN rows : rows[i].bug_number = bugNumber

\* CreateBugs up to the bound request body: the user of the context, the
\* :id of the path, the access query, ShouldBindJSON.
BugsStart(r) ==
    /\ AtMw(r, "bugs")
    /\ LET user == GetUser(slot[r])
       IN  \/ /\ user.isNil
              /\ Answer(r, StatusUnauthorized, "Authentication required")
              /\ Log2(r, "handler", "handler_no_user")
              /\ UNCHANGED bug
           \/ /\ ~user.isNil
              /\ bug[r].projectID = ""
              /\ Answer(r, StatusBadRequest, "Project ID is required")
              /\ Log2(r, "handler", "id_missing")
              /\ UNCHANGED bug
           \/ /\ ~user.isNil
              /\ bug[r].projectID # ""
              /\ QueryReturns(up.db)
              /\ Answer(r, StatusInternalServerError, "Failed to verify project access")
              /\ Log2(r, "handler", "access_error")
              /\ UNCHANGED bug
           \/ /\ ~user.isNil
              /\ bug[r].projectID # ""
              /\ up.db
              /\ ~HasAccess(user.user.RegistrationID)
              /\ Answer(r, StatusForbidden, "You do not have access to this project")
              /\ Log2(r, "handler", "access_denied")
              /\ UNCHANGED bug
           \/ /\ ~user.isNil
              /\ bug[r].projectID # ""
              /\ up.db
              /\ HasAccess(user.user.RegistrationID)
              /\ bug[r].n = 0
              /\ Answer(r, StatusBadRequest, BindingError)
              /\ Log2(r, "handler", "bind_error")
              /\ UNCHANGED bug
           \/ /\ ~user.isNil
              /\ bug[r].projectID # ""
              /\ up.db
              /\ HasAccess(user.user.RegistrationID)
              /\ bug[r].n > 0
              /\ pc' = [pc EXCEPT ![r] = "bug_max"]
              /\ Log2(r, "handler", "bound")
              /\ UNCHANGED <<resp, bug>>
    /\ UNCHANGED <<token, chain, idx, slot, lkey, lkeys, arrivedAt, installedAt>>
    /\ UNCHANGED <<cacheVars, envVars, up, bugs>>

\* The query of the current maximum of the project's bug numbers.
BugsMax(r) ==
    /\ pc[r] = "bug_max"
    /\ \/ /\ QueryReturns(up.db)
          /\ Answer(r, StatusInternalServerError, "Failed to create bugs")
          /\ Log(r, "max_error")
          /\ UNCHANGED bug
       \/ /\ up.db
          /\ bug' = [bug EXCEPT ![r].currentMax = CurrentMax(bugs)]
          /\ pc' = [pc EXCEPT ![r] = "bug_insert"]
          /\ Log(r, "max_read")
          /\ UNCHANGED resp
    /\ UNCHANGED <<token, chain, idx, slot, lkey, lkeys, arrivedAt, installedAt>>
    /\ UNCHANGED <<cacheVars, envVars, up, bugs>>

\* db.Pool.SendBatch and the scan of its results: the inserts of one batch
\* are one implicit transaction, stored together or not at all.  The answer
\* to a batch that the database committed can still be lost to the deadline
\* of the handler's context.
BugsInsert(r) ==
    /\ pc[r] = "bug_insert"
    /\ LET rows == BatchRows(bug[r].currentMax, bug[r].n, slot[r].user.RegistrationID)
           taken == \E i \in DOMAIN rows : NumberTaken(bugs, rows[i].bug_number)
       IN  \/ /\ taken
              /\ Answer(r, StatusInternalServerError, "Failed to create bugs")
              /\ Log(r, "bugs_conflict")
              /\ UNCHANGED bugs
           \/ /\ ~taken
              /\ QueryReturns(up.db)
              /\ Answer(r, StatusInternalServerError, "Failed to create bugs")
              /\ Log(r, "bugs_failed")
              /\ UNCHANGED bugs
           \/ /\ ~taken
              /\ up.db
              /\ bugs' = bugs \o rows
              /\ Answer(r, StatusInternalServerError, "Failed to create bugs")
              /\ Log(r, "bugs_stored_unanswered")
           \/ /\ ~taken
              /\ up.db
              /\ bugs' = bugs \o rows
              /\ Answer(r, StatusCreated, "")
              /\ Log(r, "bugs_created")
    /\ UNCHANGED <<token, chain, idx, slot, lkey, lkeys, arrivedAt, installedAt>>
    /\ UNCHANGED <<cacheVars, envVars, up, bug>>

\* POST /register (public): a body that fails validation is answered 400;
\* otherwise the row is inserted, here for c@x.com, or the insert fails
\* (registrations.email is UNIQUE).
Register(r) ==
    /\ AtMw(r, "register")
    /\ \/ /\ Answer(r, StatusBadRequest, BindingError)
          /\ UNCHANGED registrations
       \/ /\ QueryReturns(up.db)
          /\ Answer(r, StatusInternalServerError, "Failed to save registration")
          /\ UNCHANGED registrations
       \/ \E role \in {RolePm, RoleProjectManager, RoleDeveloper} :
            /\ up.db
            /\ \A row \in registrations : row.email # "c@x.com"
            /\ registrations' = registrations \cup {Row("r2", "c@x.com", role)}
            /\ Answer(r, StatusCreated, "")
    /\ Log(r, "register")
    /\ UNCHANGED <<token, chain, idx, slot, lkey, lkeys, arrivedAt, installedAt, cacheVars>>
    /\ UNCHANGED <<now, secret, remoteGen>>
    /\ UNCHANGED auxVars

\* ------------------------------------------------------------ environment
\* An hour passes.
Tick ==
    /\ now < MaxTime
    /\ now' = now + 1
    /\ UNCHANGED <<secret, remoteGen, registrations, cacheVars, reqVars>>
    /\ UNCHANGED auxVars

\* The identity provider rotates its keys: the endpoint serves the next document.
Rotate ==
    /\ remoteGen < Len(JwksDocs)
    /\ remoteGen' = remoteGen + 1
    /\ UNCHANGED <<now, secret, registrations, cacheVars, reqVars>>
    /\ UNCHANGED auxVars

\* ------------------------------------------------------------ specifications
\* The role of the first registration is changed in the table (the table is
\* open to whoever administers the database).
ChangeRole ==
    /\ \E row \in registrations, role \in {RolePM, RoleDeveloper} :
          /\ row.id = "r1"
          /\ role # row.role
          /\ registrations' = (registrations \ {row}) \cup {Row(row.id, row.email, role)}
    /\ UNCHANGED <<now, secret, remoteGen, cacheVars, reqVars, auxVars>>

\* The key-discovery endpoint or the database stops or starts answering.
Outage ==
    /\ up' \in [jwks : BOOLEAN, db : BOOLEAN] \ {up}
    /\ UNCHANGED <<now, secret, remoteGen, registrations, bugs, bug, cacheVars, reqVars>>

\* The client goes away while the lookup is in flight: net/http cancels the
\* context of the inbound request. The lookup runs on context.Background()
\* and no handler of the chain looks at the request's context, so nothing
\* else changes.
Cancel(r) ==
    /\ pc[r] = "auth_query"
    /\ \A i \in 1..Len(trace[r]) : trace[r][i] # "cancelled"
    /\ Log(r, "cancelled")
    /\ UNCHANGED <<pc, token, chain, idx, slot, resp, lkey, lkeys, arrivedAt, installedAt>>
    /\ UNCHANGED <<cacheVars, envVars, auxVars>>

Step(r) ==
    \/ AuthHeader(r)
    \/ AuthParse(r)
    \/ GetKeyRLock(r)
    \/ GetKeyCheck(r)
    \/ FetchGet(r)
    \/ FetchLockStore(r)
    \/ FetchTimeUnlock(r)
    \/ GetKeyRLock2(r)
    \/ GetKeyLookup(r)
    \/ AuthVerify(r)
    \/ AuthClaims(r)
    \/ AuthQuery(r)
    \/ RequireRole(r)
    \/ HealthCheck(r)
    \/ GetProjects(r)
    \/ GetProjectsList(r)
    \/ GetProjectByID(r)
    \/ CreateProject(r)
    \/ BugsStart(r)
    \/ BugsMax(r)
    \/ BugsInsert(r)
    \/ Register(r)
    \/ Finish(r)

\* The headers a route is called with: every header where AuthMiddleware
\* reads it, none on the public routes, whose handlers never look at it.
HeadersOf(ch) == IF ch[1] = MwAuth THEN Tokens ELSE {NoToken}

\* The server as deployed, one request in flight at a time: every header
\* on every route of SetupRouter, and every header with a body of bugs on
\* the bugs route, for the project and with an empty :id.
Next ==
    \/ /\ pc["q1"] = "idle"
       /\ \E ch \in RouterChains : \E tok \in HeadersOf(ch) :
             Arrive("q1", tok, ch, SlotAbsent)
    \/ /\ pc["q1"] = "idle"
       /\ \E tok \in Tokens, n \in 1..MaxBatch : PostBugs("q1", tok, "p1", n)
    \/ /\ pc["q1"] = "idle"
       /\ \E tok \in Tokens : PostBugs("q1", tok, "", 1)
    \/ Step("q1")
    \/ Tick
    \/ Rotate

Spec == Init /\ [][Next]_vars

\* The exported middleware under any composition and any content of the
\* context slot, as a unit test would call it.
UnitTokens ==
    { NoToken,
      Token("bearer", "jwt", "HS256", "", SigHmac("wrong"), FarExp, "a@x.com"),
      Token("bearer", "jwt", "HS256", "", SigHmac(""), FarExp, "a@x.com"),
      Token("bearer", "jwt", "ES256", "k1", SigEcdsa(KeyK1), FarExp, "a@x.com") }
    \cup { Token("bearer", "jwt", "HS256", "", SigHmac("s3cr3t"), FarExp, m) : m \in Emails }
    \cup { [Token("bearer", "jwt", "HS256", "", SigHmac("s3cr3t"), FarExp, "a@x.com")
               EXCEPT !.role = RolePM] }

StepUnit(r) ==
    \/ AuthHeader(r)
    \/ AuthParse(r)
    \/ GetKeyRLock(r)
    \/ GetKeyCheck(r)
    \/ FetchGet(r)
    \/ FetchLockStore(r)
    \/ FetchTimeUnlock(r)
    \/ GetKeyRLock2(r)
    \/ GetKeyLookup(r)
    \/ AuthVerify(r)
    \/ AuthClaims(r)
    \/ AuthQuery(r)
    \/ RequireRole(r)
    \/ GetProjects(r)
    \/ GetProjectsList(r)
    \/ CreateProject(r)
    \/ Register(r)
    \/ Finish(r)

NextUnit ==
    \/ /\ pc["q1"] = "idle"
       /\ \E tok \in UnitTokens, ch \in UnitChains, s0 \in {SlotAbsent, SlotOther} :
             Arrive("q1", tok, ch, s0)
    \/ StepUnit("q1")
    \/ Tick
    \/ Rotate
    \/ ChangeRole

SpecUnit == Init /\ [][NextUnit]_vars

\* Requests served concurrently: asymmetric tokens, which go through the key
\* cache, on the PM route of SetupRouter, with the secret configured.
ConcTokens ==
    { [Token("bearer", "jwt", "ES256", ks[1], SigEcdsa(ks[4]), FarExp, ks[3])
          EXCEPT !.sub = ks[2]] :
        ks \in {<<"k1", "u1", "a@x.com", KeyK1>>, <<"k6", "u2", "c@x.com", KeyK6>>} }

\* Two users are registered: a project manager and a developer.
InitConc ==
    /\ secret = "s3cr3t"
    /\ registrations = {Row("r1", "a@x.com", RolePM), Row("r2", "c@x.com", RoleDeveloper)}
    /\ bugs = <<>>
    /\ InitProcess

StepConc(r) ==
    \/ AuthHeader(r)
    \/ AuthParse(r)
    \/ GetKeyRLock(r)
    \/ GetKeyCheck(r)
    \/ FetchGet(r)
    \/ FetchLockStore(r)
    \/ FetchTimeUnlock(r)
    \/ GetKeyRLock2(r)
    \/ GetKeyLookup(r)
    \/ AuthVerify(r)
    \/ AuthClaims(r)
    \/ AuthQuery(r)
    \/ RequireRole(r)
    \/ CreateProject(r)
    \/ Finish(r)

NextConc ==
    \/ \E r \in Reqs, tok \in ConcTokens : Arrive(r, tok, ChainPM, SlotAbsent)
    \/ \E r \in Reqs : StepConc(r)
    \/ Tick
    \/ Rotate

SpecConc == InitConc /\ [][NextConc]_vars

\* Concurrent requests of POST /projects/:id/bugs for one project that
\* already holds bugs, from its creator a@x.com and from c@x.com.
BugTokens ==
    { Token("bearer", "jwt", "HS256", "", SigHmac("s3cr3t"), FarExp, m) :
        m \in {"a@x.com", "c@x.com"} }

InitBugs ==
    /\ secret = "s3cr3t"
    /\ registrations = {Row("r1", "a@x.com", RolePM), Row("r2", "c@x.com", RoleDeveloper)}
    /\ bugs = BatchRows(0, StoredBugs, "r1")
    /\ InitProcess

StepBugs(r) ==
    \/ AuthHeader(r)
    \/ AuthParse(r)
    \/ AuthVerify(r)
    \/ AuthClaims(r)
    \/ AuthQuery(r)
    \/ BugsStart(r)
    \/ BugsMax(r)
    \/ BugsInsert(r)
    \/ Finish(r)

NextBugs ==
    \/ \E r \in Reqs, tok \in BugTokens : Arrive(r, tok, ChainBugs, SlotAbsent)
    \/ \E r \in Reqs, tok \in BugTokens, id \in {"p1", ""}, n \in 1..MaxBatch :
          PostBugs(r, tok, id, n)
    \/ \E r \in Reqs : StepBugs(r)

SpecBugs == InitBugs /\ [][NextBugs]_vars

\* ---------------------------------------------------------------------------
\* Requests served while the endpoint and the database come and go and
\* clients go away, with the scheduling the runtime gives: a goroutine that
\* can take a step takes it, and sync.RWMutex lets no goroutine wait for ever
\* for a lock that is released again and again.
LiveTokens ==
    { Token("bearer", "jwt", "HS256", "", SigHmac("s3cr3t"), FarExp, "a@x.com"),
      Token("bearer", "jwt", "ES256", "k1", SigEcdsa(KeyK1), FarExp, "a@x.com") }

Running(r) ==
    \/ AuthHeader(r)
    \/ AuthParse(r)
    \/ GetKeyCheck(r)
    \/ FetchGet(r)
    \/ FetchTimeUnlock(r)
    \/ GetKeyLookup(r)
    \/ AuthVerify(r)
    \/ AuthClaims(r)
    \/ AuthQuery(r)
    \/ RequireRole(r)
    \/ CreateProject(r)

Locking(r) ==
    \/ GetKeyRLock(r)
    \/ FetchLockStore(r)
    \/ GetKeyRLock2(r)

NextLive ==
    \/ \E r \in Reqs, tok \in LiveTokens : Arrive(r, tok, ChainPM, SlotAbsent)
    \/ \E r \in Reqs : Running(r)
    \/ \E r \in Reqs : Locking(r)
    \/ \E r \in Reqs : Finish(r)
    \/ \E r \in Reqs : Cancel(r)
    \/ Outage

SpecLive ==
    /\ InitConc
    /\ [][NextLive]_vars
    /\ \A r \in Reqs : WF_vars(Running(r)) /\ SF_vars(Locking(r))

\* ================================================================ properties
InTrace(r, ev) == \E i \in 1..Len(trace[r]) : trace[r][i] = ev
Count(r, ev) == Cardinality({i \in 1..Len(trace[r]) : trace[r][i] = ev})
Last(r) == IF trace[r] = <<>> THEN "" ELSE trace[r][Len(trace[r])]
Before(r, ev1, ev2) ==
    \A j \in 1..Len(trace[r]) :
        trace[r][j] = ev2 => \E i \in 1..(j - 1) : trace[r][i] = ev1

Rejections ==
    {"header_rejected", "parse_rejected", "kid_rejected", "alg_rejected",
     "fetch_failed", "key_not_found", "verify_rejected", "email_rejected",
     "query_error", "query_no_row", "role_no_user", "role_forbidden"}

Protected(r) == chain[r] # <<>> /\ chain[r][1] = MwAuth
Restricted(r) == \E i \in 1..Len(chain[r]) : chain[r][i].mw = "role"
AllowedOf(r) == chain[r][CHOOSE i \in 1..Len(chain[r]) : chain[r][i].mw = "role"].roles

\* The keys the endpoint has ever published under a key-id.
Published(kid) ==
    { ParseKeys(JwksDocs[g], EmptyKeys)[kid] : g \in 1..Len(JwksDocs) } \ {NoKey}

\* The token is what the identity provider issues: signed under the configured
\* secret, or by a published key named in its header.
Genuine(tok) ==
    /\ tok.hdr = "bearer"
    /\ tok.form = "jwt"
    /\ \/ /\ tok.alg = "HS256"
          /\ tok.sig = SigHmac(secret)
       \/ /\ tok.alg = "ES256"
          /\ tok.kid \in Kids
          /\ \E k \in Published(tok.kid) : tok.sig = SigEcdsa(k)

\* Letter case removed, character by character.
Folded(s) == [i \in 1..Len(s) |-> FoldChar(s[i])]
SameRole(role, allowed) == \E i \in 1..Len(allowed) : Folded(role) = Folded(allowed[i])

\* C1: on a protected route the business handler runs only for a request with
\* a bearer token that verified, whose identity was resolved from the row of
\* its email and (on a role-restricted route) whose role is allowed; a
\* rejection is the last thing that happens to a request.
C1_HandlerOnlyAfterPipeline ==
    \A r \in Reqs :
        /\ (Protected(r) /\ InTrace(r, "handler")) =>
              /\ Genuine(token[r])
              /\ token[r].exp = NoExp \/ token[r].exp > arrivedAt[r]
              /\ ClaimString(token[r].email) # ""
              /\ slot[r].kind = "user"
              /\ slot[r].user.Email = token[r].email
              /\ Row(slot[r].user.RegistrationID, token[r].email, slot[r].user.Role)
                    \in registrations
              /\ Restricted(r) => SameRole(slot[r].user.Role, AllowedOf(r))
        /\ \A i \in 1..Len(trace[r]) :
              trace[r][i] \in Rejections =>
                  /\ i = Len(trace[r])
                  /\ pc[r] = "done"
                  /\ resp[r].status \in {StatusUnauthorized, StatusForbidden}

\* C1 witness: the token of a@x.com, row (r1, a@x.com, PM), allowed {PM, ...}:
\* the handler has served the request with identity {r1, PM}.
C1_Witness ==
    \E r \in Reqs :
        /\ chain[r] = ChainPM
        /\ InTrace(r, "handler_served")
        /\ token[r].email = "a@x.com"
        /\ slot[r].user.RegistrationID = "r1"
        /\ slot[r].user.Role = RolePM
        /\ resp[r].status = StatusCreated

\* ---------------------------------------------------------------------------
UnsupportedAlg(tok) ==
    tok.hdr = "bearer" /\ tok.form = "jwt"
    /\ SigningMethod(tok.alg) \notin {"HMAC", "ECDSA"}

KeyEvents ==
    {"get_key", "cache_hit", "cache_miss", "fetch_ok", "fetch_failed",
     "cache_installed", "lookup_hit", "key_not_found", "secret_key"}

InvalidTokenResp == [status |-> StatusUnauthorized, error |-> "Invalid or expired token", suffix |-> <<>>, db_status |-> ""]

\* C2: a token whose alg is of neither the HMAC nor the ECDSA scheme is
\* rejected by verify whatever the cache holds and whatever the secret is,
\* and no key is looked up or fetched for it.
C2_UnsupportedAlgRejected ==
    \A r \in Reqs :
        (Protected(r) /\ UnsupportedAlg(token[r])) =>
            /\ pc[r] \in {"chain", "auth_parse", "done"}
            /\ idx[r] = 0
            /\ \A i \in 1..Len(trace[r]) : trace[r][i] \notin KeyEvents
            /\ lkey[r] = KeyNone
            /\ slot[r].kind = "absent"
            /\ pc[r] = "done" => resp[r] = InvalidTokenResp

\* C2 witness: an RS256 token carrying a signature a cached key would accept
\* has been rejected while the cache holds that key.
C2_Witness ==
    \E r \in Reqs :
        /\ Protected(r)
        /\ token[r].alg = "RS256"
        /\ token[r].sig = SigEcdsa(KeyK1)
        /\ HasKey(jwksCache, "k1")
        /\ jwksCache.keys["k1"] = KeyK1
        /\ pc[r] = "done"
        /\ resp[r] = InvalidTokenResp

\* ---------------------------------------------------------------------------
FetchResults == { MapOf(ParseKeys(JwksDocs[g], EmptyKeys)) : g \in 1..Len(JwksDocs) }

\* C3: whenever a reader holds the read lock, and whenever nobody holds the
\* write lock, the cache is the pair (NilMap, ZeroTime) of a cache never
\* fetched or the (mapping, timestamp) pair written by one fetchJWKS call.
C3_CacheFromOneFetch ==
    (rlocked # {} \/ wlocked = NoReq) =>
        /\ [cache |-> jwksCache, time |-> jwksCacheTime] = installed
        /\ \/ jwksCache = NilMap /\ jwksCacheTime = ZeroTime
           \/ jwksCache \in FetchResults /\ jwksCacheTime \in 0..now

\* C3 witness: one request reads the cache, which holds the second document,
\* while another waits for the write lock with the keys of the first.
C3_Witness ==
    \E r1, r2 \in Reqs :
        /\ r1 # r2
        /\ r1 \in rlocked
        /\ pc[r2] = "f_lock"
        /\ jwksCache = MapOf(ParseKeys(JwksDocs[2], EmptyKeys))
        /\ lkeys[r2] = MapOf(ParseKeys(JwksDocs[1], EmptyKeys))

\* ---------------------------------------------------------------------------
\* C4: a token whose exp lies before the time the request arrived never
\* verifies: the request is answered 401 "Invalid or expired token", no
\* claims are read, no lookup is made and no handler runs.
C4_ExpiredRejected ==
    \A r \in Reqs :
        (Protected(r) /\ token[r].hdr = "bearer" /\ token[r].form = "jwt"
            /\ token[r].exp # NoExp
            /\ token[r].exp < arrivedAt[r]) =>
            /\ ~InTrace(r, "verify_ok")
            /\ pc[r] \notin {"auth_claims", "auth_query"}
            /\ idx[r] = 0
            /\ slot[r].kind = "absent"
            /\ pc[r] = "done" => resp[r] = InvalidTokenResp

\* C4 witness: a token signed under the configured secret, expired when it
\* arrived, has been rejected at verification.
C4_Witness ==
    \E r \in Reqs :
        /\ Protected(r)
        /\ token[r].alg = "HS256"
        /\ token[r].sig = SigHmac(secret)
        /\ token[r].exp # NoExp
        /\ token[r].exp < arrivedAt[r]
        /\ Last(r) = "verify_rejected"
        /\ resp[r] = InvalidTokenResp

\* ---------------------------------------------------------------------------
RolePos(r) == CHOOSE i \in 1..Len(chain[r]) : chain[r][i].mw = "role"

\* C5: a request whose slot holds no UserContext never gets past RequireRole,
\* whatever the allowed roles: it is answered 401 "Authentication required"
\* and the handler behind the middleware does not run.
C5_NoIdentityDenied ==
    \A r \in Reqs :
        (Restricted(r) /\ slot[r].kind # "user") =>
            /\ idx[r] < RolePos(r)
            /\ ~InTrace(r, "role_ok")
            /\ ~InTrace(r, "handler")
            /\ (idx[r] = RolePos(r) - 1 /\ pc[r] = "done") =>
                  /\ Last(r) = "role_no_user"
                  /\ resp[r] = [status |-> StatusUnauthorized,
                                error |-> "Authentication required", suffix |-> <<>>, db_status |-> ""]

\* C5 witness: RequireRole on a route without AuthMiddleware, the slot holding
\* a value that is no UserContext, has denied the request.
C5_Witness ==
    \E r \in Reqs :
        /\ chain[r] = <<MwRole(<<>>), HCreateProject>>
        /\ slot[r] = SlotOther
        /\ trace[r] = <<"role_no_user">>
        /\ pc[r] = "done"
        /\ resp[r].status = StatusUnauthorized

\* ---------------------------------------------------------------------------
RoleChecked(r) == InTrace(r, "role_ok") \/ InTrace(r, "role_forbidden")

\* C6: with a non-empty allowed set and a resolved identity, RequireRole lets
\* the request through exactly when the role equals a member of the set up to
\* letter case; otherwise the request ends 403, and 403 is the answer of no
\* other rejection.
C6_RoleCaseInsensitive ==
    \A r \in Reqs :
        /\ (Restricted(r) /\ AllowedOf(r) # <<>> /\ RoleChecked(r)) =>
              /\ slot[r].kind = "user"
              /\ InTrace(r, "role_ok") <=> SameRole(slot[r].user.Role, AllowedOf(r))
              /\ InTrace(r, "role_forbidden") =>
                    /\ pc[r] = "done"
                    /\ resp[r].status = StatusForbidden
                    /\ resp[r].status # StatusUnauthorized
                    /\ ~InTrace(r, "handler")
        /\ resp[r].status = StatusForbidden <=> Last(r) = "role_forbidden"

\* C6 witness: role "pm" has passed the allowed set {"PM"}.
C6_Witness ==
    \E r \in Reqs :
        /\ chain[r] = <<MwAuth, MwRole(<<RolePM>>), HCreateProject>>
        /\ slot[r].kind = "user"
        /\ slot[r].user.Role = RolePm
        /\ InTrace(r, "role_ok")
        /\ InTrace(r, "handler_served")

\* ---------------------------------------------------------------------------
EmptyAllowed(r) == Restricted(r) /\ AllowedOf(r) = <<>>

\* C7 as stated: with an empty allowed set every request that carries a
\* resolved identity is authorized.
C7_EmptyAllowedAuthorizes ==
    \A r \in Reqs :
        (EmptyAllowed(r) /\ slot[r].kind = "user") => ~InTrace(r, "role_forbidden")

\* C7 amended: with an empty allowed set RequireRole authorizes nobody: a
\* request that carries a resolved identity ends 403 whatever its role, and
\* the handler does not run.
C7_EmptyAllowedForbids ==
    \A r \in Reqs :
        EmptyAllowed(r) =>
            /\ ~InTrace(r, "role_ok")
            /\ ~InTrace(r, "handler")
            /\ (slot[r].kind = "user" /\ pc[r] = "done") =>
                  /\ Last(r) = "role_forbidden"
                  /\ resp[r].status = StatusForbidden

\* C7 witness: the PM of row r1 has been refused by RequireRole().
C7_Witness ==
    \E r \in Reqs :
        /\ chain[r] = <<MwAuth, MwRole(<<>>), HCreateProject>>
        /\ slot[r].kind = "user"
        /\ slot[r].user.Role = RolePM
        /\ Last(r) = "role_forbidden"
        /\ resp[r].status = StatusForbidden

\* ---------------------------------------------------------------------------
VerifyEvents ==
    KeyEvents \cup {"parse_rejected", "kid_rejected", "alg_rejected",
                    "verify_ok", "verify_rejected"}
LookupEvents == {"query_ok", "query_error", "query_no_row"}
RoleEvents == {"role_ok", "role_forbidden", "role_no_user"}

\* C8: in one request the header check comes before any verification step,
\* the registrations lookup only after the verification has succeeded, the
\* role check only after the identity has been looked up and stored; a
\* request without a bearer header is rejected with nothing else done.
C8_StepOrder ==
    \A r \in Reqs :
        /\ \A ev \in VerifyEvents \cup {"claims_ok", "email_rejected"} \cup LookupEvents :
              Before(r, "header_ok", ev)
        /\ \A ev \in {"claims_ok", "email_rejected"} \cup LookupEvents :
              Before(r, "verify_ok", ev)
        /\ Before(r, "query_ok", "user_set")
        /\ \A ev \in RoleEvents : Before(r, "user_set", ev)
        /\ pc[r] = "auth_query" => InTrace(r, "verify_ok")
        /\ slot[r].kind = "user" => InTrace(r, "query_ok")
        /\ (Protected(r) /\ token[r].hdr # "bearer" /\ trace[r] # <<>>) =>
              /\ trace[r] = <<"header_rejected">>
              /\ pc[r] = "done"
              /\ lkey[r] = KeyNone /\ lkeys[r] = NilMap /\ slot[r].kind = "absent"
              /\ resp[r] = [status |-> StatusUnauthorized,
                            error |-> "Missing or invalid authorization header", suffix |-> <<>>, db_status |-> ""]

\* C8 witness: a request on the PM route has gone through all four steps.
C8_Witness ==
    \E r \in Reqs :
        /\ chain[r] = ChainPM
        /\ trace[r] = <<"header_ok", "get_key", "cache_miss", "fetch_ok",
                        "cache_installed", "lookup_hit", "verify_ok", "claims_ok",
                        "query_ok", "user_set", "role_ok", "handler", "handler_served">>

\* ---------------------------------------------------------------------------
\* C9 as stated: whenever the key set a call has fetched lacks the kid, the
\* call does not return a key.
C9_FetchedSetDecides ==
    \A r \in Reqs :
        (InTrace(r, "fetch_ok") /\ ~HasKey(lkeys[r], token[r].kid)) =>
            ~InTrace(r, "lookup_hit")

\* C9 amended: when the refresh succeeds and the key set in the cache at the
\* lookup that follows it (the fetched one, or the one a concurrent
\* refresh has installed since) lacks the kid, getPublicKey returns "not
\* found" and the request is answered 401 "Invalid or expired token"; a call
\* fetches at most once and looks up at most once after the fetch.
C9_KeyNotFoundRejects ==
    /\ [](\A r \in Reqs :
            /\ Count(r, "fetch_ok") + Count(r, "fetch_failed") <= 1
            /\ Count(r, "lookup_hit") + Count(r, "key_not_found") <= 1
            /\ InTrace(r, "key_not_found") =>
                  /\ Last(r) = "key_not_found"
                  /\ InTrace(r, "fetch_ok")
                  /\ pc[r] = "done"
                  /\ lkey[r] = KeyNone
                  /\ resp[r] = InvalidTokenResp)
    /\ [][\A r \in Reqs :
            (pc[r] = "gk_lookup" /\ pc'[r] # "gk_lookup") =>
                IF HasKey(jwksCache, token[r].kid)
                THEN Last(r)' = "lookup_hit" /\ pc'[r] = "auth_verify"
                ELSE Last(r)' = "key_not_found" /\ pc'[r] = "done"]_vars

\* C9 witness: the refresh succeeded, the kid is in neither the fetched set nor
\* the cache, and the request has been rejected.
C9_Witness ==
    \E r \in Reqs :
        /\ token[r].kid = "k6"
        /\ InTrace(r, "fetch_ok")
        /\ ~HasKey(lkeys[r], "k6")
        /\ ~HasKey(jwksCache, "k6")
        /\ Last(r) = "key_not_found"
        /\ resp[r] = InvalidTokenResp

\* ---------------------------------------------------------------------------
StaleWithKey(kid) ==
    /\ ~jwksCache.isNil
    /\ jwksCacheTime # ZeroTime
    /\ now - jwksCacheTime > jwksCacheTTL
    /\ HasKey(jwksCache, kid)

\* C10: when the refresh fails while the cache, older than the TTL, still holds
\* the kid, getPublicKey returns the cached key and the request is not
\* rejected for it (stated for an unexpired token signed by that key, whose
\* verification would succeed).
C10_StaleKeyServed ==
    \A r \in Reqs :
        (/\ Last(r) = "fetch_failed"
         /\ StaleWithKey(token[r].kid)
         /\ token[r].sig = SigEcdsa(jwksCache.keys[token[r].kid])
         /\ token[r].exp > now) =>
            /\ lkey[r] = KeyEcdsa(jwksCache.keys[token[r].kid])
            /\ resp[r].status # StatusUnauthorized

\* C11: a fetchJWKS that fails (the GET or the decoding of the body) leaves
\* jwksCache and jwksCacheTime as they were, and its error reaches the caller:
\* no key is returned and the request is answered 401.
C11_FailedFetchKeepsCache ==
    [][\A r \in Reqs :
          (pc[r] = "f_get" /\ pc'[r] # "f_lock" /\ pc'[r] # "f_get") =>
              /\ jwksCache' = jwksCache
              /\ jwksCacheTime' = jwksCacheTime
              /\ trace'[r] = Append(trace[r], "fetch_failed")
              /\ lkey'[r] = KeyNone
              /\ pc'[r] = "done"
              /\ resp'[r] = InvalidTokenResp]_vars

C11_Witness ==
    \E r \in Reqs :
        /\ Last(r) = "fetch_failed"
        /\ ~jwksCache.isNil
        /\ jwksCacheTime # ZeroTime
        /\ lkey[r] = KeyNone
        /\ resp[r] = InvalidTokenResp

FetchEvents == {"fetch_ok", "fetch_failed", "cache_installed"}

\* C12: getPublicKey answers from a cache that is fresh (age below the TTL)
\* and holds the kid, without a fetch; with a cache never fetched, older than
\* the TTL or lacking the kid it runs fetchJWKS once, and only after the fetch
\* has installed its set does it look the kid up, in the installed set.
C12_FreshHitElseRefresh ==
    /\ [][\A r \in Reqs :
            (pc[r] = "gk_check" /\ pc'[r] # "gk_check") =>
                LET kid == token[r].kid
                    fresh == ~jwksCache.isNil /\ now - jwksCacheTime < jwksCacheTTL
                    stale == jwksCache.isNil \/ now - jwksCacheTime > jwksCacheTTL
                IN  /\ (fresh /\ HasKey(jwksCache, kid)) =>
                          /\ pc'[r] = "auth_verify"
                          /\ lkey'[r] = KeyEcdsa(jwksCache.keys[kid])
                          /\ trace'[r] = Append(trace[r], "cache_hit")
                    /\ (stale \/ ~HasKey(jwksCache, kid)) =>
                          /\ pc'[r] = "f_get"
                          /\ trace'[r] = Append(trace[r], "cache_miss")]_vars
    /\ [](\A r \in Reqs :
            /\ InTrace(r, "cache_hit") => \A ev \in FetchEvents : ~InTrace(r, ev)
            /\ Count(r, "fetch_ok") + Count(r, "fetch_failed") <= 1
            /\ \A ev \in {"lookup_hit", "key_not_found"} :
                  InTrace(r, ev) =>
                      /\ Before(r, "cache_miss", "fetch_ok")
                      /\ Before(r, "fetch_ok", "cache_installed")
                      /\ Before(r, "cache_installed", ev)
                      /\ jwksCache = lkeys[r]
            /\ Last(r) = "lookup_hit" =>
                  lkey[r] = KeyEcdsa(lkeys[r].keys[token[r].kid]))

C12_Witness ==
    \E r \in Reqs :
        /\ trace[r] = <<"header_ok", "get_key", "cache_hit">>
        /\ now - jwksCacheTime < jwksCacheTTL
        /\ lkey[r] = KeyEcdsa(jwksCache.keys[token[r].kid])

\* The key sets of the two fetches: of the document the endpoint served
\* before the rotation and of the one it serves after it.  A fetch of the
\* first has read the endpoint before any fetch of the second.
SetBeforeRotation == MapOf(ParseKeys(JwksDocs[1], EmptyKeys))
SetAfterRotation == MapOf(ParseKeys(JwksDocs[2], EmptyKeys))

\* C13 as stated: for a kid that the sets of both fetches hold, once the
\* younger fetch (the one that read the document served after the rotation)
\* has completed, no call of getPublicKey, whether it answers from the first
\* look at the cache or from the look after its own fetch, returns the key
\* out of the set of the older fetch when that fetch is older than the TTL
\* (its set was installed, and so read, more than jwksCacheTTL ago).
C13_NoStaleKeyAfterYoungerFetch ==
    [][\A r \in Reqs :
          (/\ pc[r] \in {"gk_check", "gk_lookup"}
           /\ pc'[r] = "auth_verify"
           /\ HasKey(SetBeforeRotation, token[r].kid)
           /\ HasKey(SetAfterRotation, token[r].kid)
           /\ \E q \in Reqs :
                 installedAt[q] # ZeroTime /\ lkeys[q] = SetAfterRotation)
          => ~ (/\ jwksCache = SetBeforeRotation
                /\ lkey'[r] = KeyEcdsa(SetBeforeRotation.keys[token[r].kid])
                /\ now - jwksCacheTime > jwksCacheTTL)]_vars

\* C14: a request is answered "User not registered" only when the lookup
\* found no row for the token's email; a lookup that failed (timeout,
\* connection) is answered otherwise.
C14_UnregisteredOnlyWithoutRow ==
    \A r \in Reqs :
        /\ resp[r].error = "User not registered" =>
              /\ Last(r) = "query_no_row"
              /\ QueryRows(ClaimString(token[r].email)) = {}
        /\ Last(r) = "query_error" => resp[r].error # "User not registered"

\* The rejections the claim counts as an invalid token: malformed, unsupported
\* algorithm, missing or unknown kid, bad signature or expired, and an absent
\* or empty email claim.
InvalidTokenReasons ==
    {"parse_rejected", "alg_rejected", "kid_rejected", "key_not_found",
     "verify_rejected", "email_rejected"}

\* C15: every request rejected for an invalid-token reason gets one and the
\* same response, status and body (the one a malformed token gets), so any
\* two such requests get the same response.
C15_InvalidTokenOneResponse ==
    \A r \in Reqs :
        Last(r) \in InvalidTokenReasons => resp[r] = InvalidTokenResp

\* C16: a genuine token whose email claim is absent, empty or no string never
\* gets to the lookup: no query is made, no user is stored, the handler does
\* not run, and the answer is 401 (for the missing email when the token is
\* unexpired); a genuine, unexpired token with an email but without a sub is
\* not rejected as a token, and the user built from it has an empty id.
C16_EmailRequiredSubOptional ==
    \A r \in Reqs :
        (Protected(r) /\ Genuine(token[r])) =>
            /\ token[r].email \in {"", AbsentClaim, NumberClaim} =>
                  /\ \A ev \in LookupEvents \cup {"user_set", "handler"} : ~InTrace(r, ev)
                  /\ pc[r] # "auth_query"
                  /\ slot[r].kind = "absent"
                  /\ pc[r] = "done" => resp[r].status = StatusUnauthorized
                  /\ (pc[r] = "done" /\ token[r].alg = "HS256" /\ token[r].exp > now) =>
                        /\ Last(r) = "email_rejected"
                        /\ resp[r].error = "Token missing email claim"
            /\ ( /\ token[r].sub = AbsentClaim
                 /\ token[r].email \notin {"", AbsentClaim, NumberClaim}
                 /\ token[r].alg = "HS256"
                 /\ token[r].exp > now ) =>
                  /\ Last(r) \notin InvalidTokenReasons \cup {"header_rejected"}
                  /\ pc[r] = "done" => \E ev \in LookupEvents : InTrace(r, ev)
                  /\ InTrace(r, "user_set") =>
                        /\ slot[r].user.SupabaseUserID = ""
                        /\ slot[r].user.Email = token[r].email

C16_Witness ==
    \E r \in Reqs :
        /\ Protected(r)
        /\ Genuine(token[r])
        /\ token[r].exp > now
        /\ token[r].email \in {AbsentClaim, NumberClaim}
        /\ Last(r) = "email_rejected"
        /\ resp[r].status = StatusUnauthorized

\* C17: a bearer token of an ECDSA alg whose header has no kid (or an empty
\* one) is rejected by the key function itself: getPublicKey is not called,
\* so the request never holds jwksCacheMu, reads no key, fetches nothing, and
\* is answered 401 "Invalid or expired token".
C17_NoKidRejectedBeforeCache ==
    \A r \in Reqs :
        ( /\ Protected(r)
          /\ token[r].hdr = "bearer"
          /\ token[r].form = "jwt"
          /\ SigningMethod(token[r].alg) = "ECDSA"
          /\ token[r].kid = "" ) =>
            /\ \A ev \in KeyEvents : ~InTrace(r, ev)
            /\ pc[r] \in {"chain", "auth_parse", "done"}
            /\ r \notin rlocked
            /\ wlocked # r
            /\ lkey[r] = KeyNone
            /\ lkeys[r] = NilMap
            /\ installedAt[r] = ZeroTime
            /\ slot[r].kind = "absent"
            /\ pc[r] = "done" =>
                  /\ trace[r] = <<"header_ok", "kid_rejected">>
                  /\ resp[r] = InvalidTokenResp

C17_Witness ==
    \E r \in Reqs :
        /\ Protected(r)
        /\ token[r].alg = "ES256"
        /\ token[r].kid = ""
        /\ token[r].sig = SigEcdsa(KeyK1)
        /\ jwksCache.isNil
        /\ Last(r) = "kid_rejected"
        /\ resp[r] = InvalidTokenResp

\* What a handler that found its user logs last.
HandlerOutcomes ==
    {"handler_served", "handler_bad_request", "handler_not_found", "handler_db_error",
     "id_missing", "access_error", "access_denied", "bind_error", "max_error",
     "bugs_conflict",
     "bugs_failed", "bugs_stored_unanswered", "bugs_created"}

\* The token the test script makes: HS256, signed under the configured secret,
\* with a non-empty email, still unexpired.
SharedSecretToken(r) ==
    /\ Protected(r)
    /\ token[r].hdr = "bearer"
    /\ token[r].form = "jwt"
    /\ token[r].alg = "HS256"
    /\ token[r].sig = SigHmac(secret)
    /\ token[r].email \notin {"", AbsentClaim, NumberClaim}
    /\ token[r].exp > now

\* C18: a token signed under the configured secret, unexpired and with a
\* non-empty email, is never rejected as a token; the user built from it has
\* the token's email and sub; the request ends in the hands of the route's
\* handler, which answers 200 or 201 when it serves it, unless the lookup
\* fails, finds no row for the email, or the row's role is not allowed on the
\* route.
C18_SharedSecretRoundTrip ==
    \A r \in Reqs :
        SharedSecretToken(r) =>
            /\ \A ev \in InvalidTokenReasons \cup {"header_rejected", "fetch_failed"} :
                  ~InTrace(r, ev)
            /\ pc[r] \in {"auth_claims", "auth_query"} => InTrace(r, "verify_ok")
            /\ InTrace(r, "user_set") =>
                  /\ slot[r].kind = "user"
                  /\ slot[r].user.Email = token[r].email
                  /\ token[r].sub # AbsentClaim => slot[r].user.SupabaseUserID = token[r].sub
            /\ pc[r] = "done" =>
                  /\ Last(r) \in HandlerOutcomes \cup {"query_error", "query_no_row",
                                                      "role_forbidden"}
                  /\ Last(r) = "query_no_row" =>
                        \A row \in registrations : row.email # token[r].email
                  /\ Last(r) = "role_forbidden" =>
                        /\ Restricted(r)
                        /\ ~SameRole(slot[r].user.Role, AllowedOf(r))
                  /\ Last(r) = "handler_served" =>
                        resp[r].status = IF chain[r] = ChainPM THEN StatusCreated
                                         ELSE StatusOK
                  /\ Last(r) = "bugs_created" => resp[r].status = StatusCreated

C18_Witness ==
    \E r \in Reqs :
        /\ SharedSecretToken(r)
        /\ secret = "s3cr3t"
        /\ chain[r] = ChainPM
        /\ Last(r) = "handler_served"
        /\ slot[r].user.Email = token[r].email
        /\ slot[r].user.SupabaseUserID = "u1"
        /\ token[r].sub = "u1"
        /\ resp[r].status = StatusCreated

\* The user is the one resolved for request r: the sub and email of r's token
\* and the id and role of the row of that email.
IdentityOf(r, u) ==
    /\ u.Email = token[r].email
    /\ u.SupabaseUserID = token[r].sub
    /\ Row(u.RegistrationID, u.Email, u.Role) \in registrations

AuthRejections ==
    {"header_rejected", "parse_rejected", "kid_rejected", "alg_rejected",
     "fetch_failed", "key_not_found", "verify_rejected", "email_rejected",
     "query_error", "query_no_row"}

\* C19 as stated: the user of a request's context is the one resolved for that
\* request, and a request that was rejected, by AuthMiddleware or by
\* RequireRole, has no user in its context.
C19_RejectedHasNoIdentity ==
    \A r \in Reqs :
        /\ slot[r].kind = "user" => IdentityOf(r, slot[r].user)
        /\ Last(r) \in Rejections => slot[r].kind = "absent"

\* C19, amended: the context of a request starts without a user; a user is
\* stored at most once, by the request's own AuthMiddleware on a successful
\* lookup, and stays until the context is recycled; what GetUser returns in
\* a handler is the user resolved for that same request, whatever other
\* requests are in flight; a request AuthMiddleware rejected has no user; a
\* request RequireRole rejected as forbidden keeps its user, and no handler
\* runs for it.
C19_SlotWrittenOnceByAuth ==
    /\ [](\A r \in Reqs :
            /\ pc[r] = "idle" => slot[r] = SlotAbsent
            /\ slot[r].kind = "user" <=> InTrace(r, "user_set")
            /\ slot[r].kind # "user" => slot[r] = SlotAbsent
            /\ Count(r, "user_set") <= 1
            /\ slot[r].kind = "user" =>
                  /\ InTrace(r, "query_ok")
                  /\ IdentityOf(r, slot[r].user)
            /\ InTrace(r, "handler") =>
                  /\ ~GetUser(slot[r]).isNil
                  /\ IdentityOf(r, GetUser(slot[r]).user)
            /\ Last(r) \in AuthRejections => slot[r] = SlotAbsent
            /\ Last(r) = "role_forbidden" =>
                  /\ slot[r].kind = "user"
                  /\ ~InTrace(r, "handler"))
    /\ [][\A r \in Reqs :
            slot'[r] # slot[r] =>
                \/ /\ pc[r] = "auth_query"
                   /\ pc'[r] = "chain"
                   /\ slot[r] = SlotAbsent
                   /\ slot'[r].kind = "user"
                \/ /\ pc[r] = "done"
                   /\ pc'[r] = "idle"
                   /\ slot'[r] = SlotAbsent]_vars

\* Two requests in flight with different users: one served, one forbidden.
C19_Witness ==
    \E r, q \in Reqs :
        /\ r # q
        /\ Last(r) = "handler_served"
        /\ slot[r].user.Email = "a@x.com"
        /\ slot[r].user.RegistrationID = "r1"
        /\ Last(q) = "role_forbidden"
        /\ slot[q].kind = "user"
        /\ slot[q].user.Email = "c@x.com"
        /\ slot[q].user.SupabaseUserID = "u2"

\* C20: jwksCache and jwksCacheTime are read only by a request that holds the
\* read lock and written only by the request that holds the write lock; the
\* write lock is held for the two assignments only, and no lock is held while
\* the keys are fetched; a request that waits for the lock waits for a
\* holder that is about to release it (a reader at its look-up, a writer at
\* its second assignment), never for a call that is fetching.
C20_LockDiscipline ==
    /\ [](\A r \in Reqs :
            /\ r \in rlocked <=> pc[r] \in {"gk_check", "gk_lookup"}
            /\ wlocked = r <=> pc[r] = "f_time"
            /\ pc[r] \in {"f_get", "f_lock"} => (r \notin rlocked /\ wlocked # r)
            /\ wlocked # NoReq => rlocked = {}
            /\ pc[r] \in {"gk_rlock", "gk_rlock2"} =>
                  \/ wlocked = NoReq
                  \/ \E q \in Reqs \ {r} : wlocked = q /\ pc[q] = "f_time"
            /\ pc[r] = "f_lock" =>
                  \/ wlocked = NoReq /\ rlocked = {}
                  \/ \E q \in Reqs \ {r} :
                        \/ wlocked = q /\ pc[q] = "f_time"
                        \/ q \in rlocked /\ pc[q] \in {"gk_check", "gk_lookup"})
    /\ [][ /\ jwksCache' # jwksCache =>
                \E r \in Reqs : /\ pc[r] = "f_lock"
                                 /\ wlocked = NoReq
                                 /\ rlocked = {}
                                 /\ wlocked' = r
           /\ jwksCacheTime' # jwksCacheTime =>
                \E r \in Reqs : /\ pc[r] = "f_time"
                                 /\ wlocked = r
                                 /\ rlocked = {}
                                 /\ wlocked' = NoReq
           /\ \A r \in Reqs :
                (pc[r] \in {"gk_check", "gk_lookup"} /\ pc'[r] # pc[r]) =>
                    /\ r \in rlocked
                    /\ wlocked = NoReq
                    /\ r \notin rlocked' ]_vars

\* A request reads the filled cache under the read lock while the other is in
\* its fetch.
C20_Witness ==
    \E r, q \in Reqs :
        /\ r # q
        /\ pc[q] = "f_get"
        /\ pc[r] = "gk_check"
        /\ r \in rlocked
        /\ ~jwksCache.isNil

\* C21: with the endpoint and the database answering or not, every request
\* that has entered AuthMiddleware ends: it is rejected or goes through to
\* its handler's response.
C21_RequestTerminates ==
    \A r \in Reqs : (pc[r] \notin {"idle", "done"}) ~> (pc[r] = "done")

\* A request ended by the fetch giving up on an endpoint that does not answer.
C21_Witness ==
    \E r \in Reqs :
        /\ ~up.jwks
        /\ pc[r] = "done"
        /\ InTrace(r, "fetch_failed")
        /\ resp[r] = InvalidTokenResp

\* C28: once the inbound request has been cancelled while its lookup is in
\* flight, the lookup does not run to completion: it brings back neither a
\* row nor the absence of one.
C28_CancelledLookupAbandoned ==
    \A r \in Reqs :
        \A i \in 1..Len(trace[r]) :
            trace[r][i] = "cancelled" =>
                \A j \in (i + 1)..Len(trace[r]) :
                    trace[r][j] \notin {"query_ok", "query_no_row"}

\* C22: when the cache holds the keys of the document the endpoint still
\* serves, a further fetchJWKS replaces the mapping by an equal one: every
\* kid has a key after it exactly if it had one before, and the same key.
C22_RefreshIdempotent ==
    [][\A r \in Reqs :
          ( /\ pc[r] = "f_lock"
            /\ pc'[r] = "f_time"
            /\ ~jwksCache.isNil
            /\ jwksCache = MapOf(ParseKeys(JwksDocs[remoteGen], EmptyKeys)) ) =>
              /\ ~(jwksCache').isNil
              /\ \A kid \in Kids : (jwksCache').keys[kid] = jwksCache.keys[kid]]_vars

\* A second fetch of the unchanged document has just replaced the mapping
\* the first one installed.
C22_Witness ==
    \E r \in Reqs :
        /\ pc[r] = "f_time"
        /\ ~installed.cache.isNil
        /\ installed.cache = MapOf(ParseKeys(JwksDocs[remoteGen], EmptyKeys))
        /\ jwksCache = installed.cache
        /\ lkeys[r] = jwksCache

\* C23: a service configured without the shared secret serves no request, and
\* no key function ever hands an empty secret to the verification.
C23_NoServiceWithoutSecret ==
    /\ secret = "" => \A r \in Reqs : pc[r] = "idle" /\ trace[r] = <<>>
    /\ \A r \in Reqs : lkey[r].kind = "bytes" => lkey[r].secret # ""

\* C24: the handler of POST /projects runs only for a request whose user has
\* the role PM, letter case aside; a request whose user has another role is
\* answered 403.
C24_CreateProjectOnlyPM ==
    \A r \in Reqs :
        chain[r] = ChainPM =>
            /\ InTrace(r, "handler") =>
                  /\ slot[r].kind = "user"
                  /\ Folded(slot[r].user.Role) = Folded(RolePM)
            /\ ( /\ pc[r] = "done"
                 /\ slot[r].kind = "user"
                 /\ Folded(slot[r].user.Role) # Folded(RolePM) ) =>
                  resp[r].status = StatusForbidden

\* C25: a request makes at most one lookup, and exactly one when a user is
\* stored for it; the id and role of the stored user are those of the row the
\* table holds for the token's email at the moment of the lookup, whatever
\* earlier requests found and whatever role the token claims.
C25_OneLookupFromStore ==
    /\ [](\A r \in Reqs :
            /\ Count(r, "query_ok") + Count(r, "query_error") + Count(r, "query_no_row") <= 1
            /\ InTrace(r, "user_set") => Count(r, "query_ok") = 1
            /\ (Protected(r) /\ InTrace(r, "handler_served")) => InTrace(r, "user_set"))
    /\ [][\A r \in Reqs :
            (pc[r] = "auth_query" /\ pc'[r] = "chain") =>
                /\ slot'[r].kind = "user"
                /\ slot'[r].user.Email = token[r].email
                /\ \E row \in registrations :
                      /\ row.email = token[r].email
                      /\ slot'[r].user.RegistrationID = row.id
                      /\ slot'[r].user.Role = row.role]_vars

\* The role of a@x.com has been changed from PM to Developer; a request
\* whose token claims the role PM is checked against Developer.
C25_Witness ==
    \E r \in Reqs :
        /\ token[r].role = RolePM
        /\ token[r].email = "a@x.com"
        /\ slot[r].kind = "user"
        /\ slot[r].user.RegistrationID = "r1"
        /\ slot[r].user.Role = RoleDeveloper
        /\ Last(r) = "role_forbidden"

\* C26: the cache never goes back to an older key set: once it holds the
\* keys of the document the endpoint serves after the rotation, it never
\* again holds the keys of the document the endpoint served before it.
C26_CacheNeverGoesBack ==
    [][~ ( /\ jwksCache = MapOf(ParseKeys(JwksDocs[2], EmptyKeys))
           /\ jwksCache' = MapOf(ParseKeys(JwksDocs[1], EmptyKeys)) )]_vars

\* C27: a token whose claims hold no exp never verifies, however it is
\* signed: the request is answered 401 "Invalid or expired token" and no
\* lookup is made for it.
C27_ExpRequired ==
    \A r \in Reqs :
        (Protected(r) /\ token[r].hdr = "bearer" /\ token[r].form = "jwt"
            /\ token[r].exp = NoExp) =>
            /\ ~InTrace(r, "verify_ok")
            /\ slot[r].kind = "absent"
            /\ pc[r] = "done" => resp[r] = InvalidTokenResp

\* The entries of a document that the verifier can use: key type EC, curve
\* P-256, both coordinates in the URL-safe base64 alphabet without padding;
\* worked out once for each document the endpoint serves.
UsableIndex ==
    [doc \in {JwksDocs[g] : g \in 1..Len(JwksDocs)} |->
        { i \in 1..Len(doc) :
            /\ doc[i].Kty = "EC"
            /\ doc[i].Crv = "P-256"
            /\ B64DecodeOk(doc[i].X)
            /\ B64DecodeOk(doc[i].Y) }]

UsableEntries(doc) == UsableIndex[doc]

\* C29: a cache that has been filled holds, for one of the documents the
\* endpoint serves, a key for exactly the usable entries of that document,
\* built from the coordinates of the entry, and nothing for any other entry
\* or key-id.
C29_ExactlyUsableEntries ==
    jwksCache.isNil \/
    \E g \in 1..Len(JwksDocs) :
        LET doc == JwksDocs[g] IN
        /\ \A i \in UsableEntries(doc) :
              jwksCache.keys[doc[i].Kid] =
                  [X |-> B64DecodeInt(doc[i].X), Y |-> B64DecodeInt(doc[i].Y)]
        /\ \A kid \in Kids :
              (\A i \in UsableEntries(doc) : doc[i].Kid # kid) =>
                  jwksCache.keys[kid] = NoKey

\* The cache has been filled from the first document, whose usable entry k1
\* stands between entries that are skipped.
C29_Witness ==
    /\ ~jwksCache.isNil
    /\ jwksCache.keys["k1"] # NoKey
    /\ jwksCache.keys["k6"] = NoKey
    /\ \E r \in Reqs : InTrace(r, "cache_installed")

\* C30: no two bugs of the project share a bug number, and a request that is
\* answered 201 has stored its bugs, in the order of its body, under the
\* numbers that follow the highest number the project held before.
C30_BugNumbersUniqueConsecutive ==
    /\ [](\A i, j \in DOMAIN bugs :
            i # j => bugs[i].bug_number # bugs[j].bug_number)
    /\ [][\A r \in Reqs :
            (pc[r] = "bug_insert" /\ resp'[r].status = StatusCreated) =>
                /\ Len(bugs') = Len(bugs) + bug[r].n
                /\ SubSeq(bugs', 1, Len(bugs)) = bugs
                /\ \A i \in 1..bug[r].n :
                      bugs'[Len(bugs) + i] =
                          BugRow(CurrentMax(bugs) + i, slot[r].user.RegistrationID, i)]_vars

\* Two requests read the same maximum; one has stored its two bugs under
\* the next numbers, past BUG-9, and the other has met the constraint.
C30_Witness ==
    \E r1, r2 \in Reqs :
        /\ r1 # r2
        /\ Last(r1) = "bugs_created"
        /\ Last(r2) = "bugs_conflict"
        /\ bug[r1].n = 2
        /\ bug[r1].currentMax = bug[r2].currentMax
        /\ \E i \in DOMAIN bugs : bugs[i].bug_number = BugNumber(bug[r1].currentMax + 2)
====
